---- MODULE Spec2Model ----
(***************************************************************************)
(* Table-structure inference and transaction assembly of the PDF-to-Excel  *)
(* bank statement converter.  Three variants of the pipeline are modelled: *)
(*   - the columnTypes pipeline   (src/unnamed/part_007, lines 611-1111),  *)
(*   - the originalHeader pipeline (src/unnamed/part_004, lines 325-847),  *)
(*   - the ColumnRange pipeline   (src/supabase/functions/process-pdf).    *)
(* Texts are strings; the string functions of the code (includes, trim,    *)
(* toLowerCase, join, the regular expressions) are computed character by   *)
(* character.  Coordinates are integers (PDF units); column boundaries,    *)
(* which the code computes as midpoints and averages, are exact fractions  *)
(* <<numerator, denominator>>.                                             *)
(***************************************************************************)
EXTENDS Integers, Sequences, FiniteSets, TLC

(***************************************************************************)
(* Strings                                                                 *)
(***************************************************************************)
Digits == {"0", "1", "2", "3", "4", "5", "6", "7", "8", "9"}

LowerLetters == {"a", "b", "c", "d", "e", "f", "g", "h", "i", "j", "k", "l", "m",
                 "n", "o", "p", "q", "r", "s", "t", "u", "v", "w", "x", "y", "z"}

UpperLetters == {"A", "B", "C", "D", "E", "F", "G", "H", "I", "J", "K", "L", "M",
                 "N", "O", "P", "Q", "R", "S", "T", "U", "V", "W", "X", "Y", "Z"}

Letters == LowerLetters \cup UpperLetters

\* \w of the regular expressions
WordChars == Letters \cup Digits \cup {"_"}

\* \s of the regular expressions (the characters that occur in fragments)
Spaces == {" "}

CharAt(s, i) == SubSeq(s, i, i)

LowerOf(c) ==
  CASE c = "A" -> "a" [] c = "B" -> "b" [] c = "C" -> "c" [] c = "D" -> "d"
    [] c = "E" -> "e" [] c = "F" -> "f" [] c = "G" -> "g" [] c = "H" -> "h"
    [] c = "I" -> "i" [] c = "J" -> "j" [] c = "K" -> "k" [] c = "L" -> "l"
    [] c = "M" -> "m" [] c = "N" -> "n" [] c = "O" -> "o" [] c = "P" -> "p"
    [] c = "Q" -> "q" [] c = "R" -> "r" [] c = "S" -> "s" [] c = "T" -> "t"
    [] c = "U" -> "u" [] c = "V" -> "v" [] c = "W" -> "w" [] c = "X" -> "x"
    [] c = "Y" -> "y" [] c = "Z" -> "z" [] OTHER -> c

RECURSIVE toLowerCase(_)
toLowerCase(s) ==
  IF Len(s) = 0 THEN ""
  ELSE LowerOf(CharAt(s, 1)) \o toLowerCase(SubSeq(s, 2, Len(s)))

\* String.prototype.includes
includes(s, t) ==
  \E i \in 1..(Len(s) - Len(t) + 1) : SubSeq(s, i, i + Len(t) - 1) = t

RECURSIVE trimStart(_)
trimStart(s) ==
  IF Len(s) > 0 /\ CharAt(s, 1) \in Spaces THEN trimStart(SubSeq(s, 2, Len(s))) ELSE s

RECURSIVE trimEnd(_)
trimEnd(s) ==
  IF Len(s) > 0 /\ CharAt(s, Len(s)) \in Spaces THEN trimEnd(SubSeq(s, 1, Len(s) - 1)) ELSE s

\* String.prototype.trim
trim(s) == trimEnd(trimStart(s))

\* Array.prototype.join over a sequence of strings
RECURSIVE join(_, _)
join(ss, sep) ==
  IF Len(ss) = 0 THEN ""
  ELSE IF Len(ss) = 1 THEN ss[1]
  ELSE ss[1] \o sep \o join(Tail(ss), sep)

\* text.replace(/,/g, '')
RECURSIVE removeCommas(_)
removeCommas(s) ==
  IF Len(s) = 0 THEN ""
  ELSE (IF CharAt(s, 1) = "," THEN "" ELSE CharAt(s, 1)) \o removeCommas(SubSeq(s, 2, Len(s)))

AllIn(s, chars) == \A i \in 1..Len(s) : CharAt(s, i) \in chars

\* s matches ^C{lo,hi}$ for the character class C
Run(s, chars, lo, hi) == Len(s) >= lo /\ Len(s) <= hi /\ AllIn(s, chars)

\* s matches ^A sep B sep C$ where sep is one character of seps and a, b, c
\* are <<class, lo, hi>> triples
Match3(s, seps, a, b, c) ==
  \E i \in 2..(Len(s) - 3) :
    /\ CharAt(s, i) \in seps
    /\ Run(SubSeq(s, 1, i - 1), a[1], a[2], a[3])
    /\ \E j \in (i + 2)..(Len(s) - 1) :
         /\ CharAt(s, j) \in seps
         /\ Run(SubSeq(s, i + 1, j - 1), b[1], b[2], b[3])
         /\ Run(SubSeq(s, j + 1, Len(s)), c[1], c[2], c[3])

\* s matches ^A\s+B\s+C$
Match3Spaced(s, a, b, c) ==
  \E i \in 2..(Len(s) - 3) :
    /\ CharAt(s, i) \in Spaces
    /\ Run(SubSeq(s, 1, i - 1), a[1], a[2], a[3])
    /\ \E i2 \in i..(Len(s) - 3) :
         /\ AllIn(SubSeq(s, i, i2), Spaces)
         /\ \E j \in (i2 + 2)..(Len(s) - 1) :
              /\ CharAt(s, j) \in Spaces
              /\ Run(SubSeq(s, i2 + 1, j - 1), b[1], b[2], b[3])
              /\ \E j2 \in j..(Len(s) - 1) :
                   /\ AllIn(SubSeq(s, j, j2), Spaces)
                   /\ Run(SubSeq(s, j2 + 1, Len(s)), c[1], c[2], c[3])

\* Number(...) of a string of decimal digits
RECURSIVE digitsValue(_)
digitsValue(s) ==
  IF Len(s) = 0 THEN 0
  ELSE 10 * digitsValue(SubSeq(s, 1, Len(s) - 1))
       + (CHOOSE d \in 0..9 : ToString(d) = CharAt(s, Len(s)))

(***************************************************************************)
(* Date and amount grammars of the columnTypes pipeline (part_007)         *)
(***************************************************************************)
matchesDatePattern(t) ==
  /\ Len(t) > 0
  /\ \/ Match3(t, {"-", "/"}, <<Digits, 1, 2>>, <<Digits, 1, 2>>, <<Digits, 2, 4>>)
     \/ Match3Spaced(t, <<Digits, 1, 2>>, <<WordChars, 3, 3>>, <<Digits, 4, 4>>)
     \/ Match3(t, {"-", "/"}, <<Digits, 4, 4>>, <<Digits, 1, 2>>, <<Digits, 1, 2>>)
     \/ Match3Spaced(t, <<Digits, 1, 2>>, <<Letters, 1, Len(t)>>, <<Digits, 4, 4>>)
     \/ Match3(t, {"-"}, <<Digits, 1, 2>>, <<Letters, 3, 3>>, <<Digits, 2, 4>>)
     \/ Match3(t, {"/"}, <<Digits, 1, 2>>, <<Digits, 1, 2>>, <<Digits, 4, 4>>)
     \/ Match3(t, {"-"}, <<Digits, 1, 2>>, <<Digits, 1, 2>>, <<Digits, 4, 4>>)

isDateValue(text) == matchesDatePattern(trim(text))

\* cleaned matches /^-?\d{1,}\.?\d{0,2}$/ or /^\d{1,}\.\d{2}$/
matchesUnsignedAmount(u) ==
  \/ Run(u, Digits, 1, Len(u))
  \/ \E i \in 2..Len(u) :
       /\ CharAt(u, i) = "."
       /\ Run(SubSeq(u, 1, i - 1), Digits, 1, Len(u))
       /\ Run(SubSeq(u, i + 1, Len(u)), Digits, 0, 2)

matchesAmountPattern(cleaned) ==
  matchesUnsignedAmount(IF Len(cleaned) > 0 /\ CharAt(cleaned, 1) = "-"
                          THEN SubSeq(cleaned, 2, Len(cleaned)) ELSE cleaned)

\* 100 * Math.abs(parseFloat(cleaned)) for a text that matches the amount pattern
withoutSign(cleaned) ==
  IF Len(cleaned) > 0 /\ CharAt(cleaned, 1) = "-" THEN SubSeq(cleaned, 2, Len(cleaned))
  ELSE cleaned

dotIndex(u) ==
  IF \E i \in 1..Len(u) : CharAt(u, i) = "."
    THEN CHOOSE i \in 1..Len(u) : CharAt(u, i) = "." ELSE Len(u) + 1

centsOf(whole, frac) ==
  100 * digitsValue(whole)
  + (IF Len(frac) = 0 THEN 0
     ELSE IF Len(frac) = 1 THEN 10 * digitsValue(frac)
     ELSE digitsValue(frac))

unsignedCents(u, dot) == centsOf(SubSeq(u, 1, dot - 1), SubSeq(u, dot + 1, Len(u)))

amountCents(cleaned) == unsignedCents(withoutSign(cleaned), dotIndex(withoutSign(cleaned)))

\* the pattern test and Math.abs(num) >= 0.01 of isAmountValue
isAmountNumber(cleaned) == matchesAmountPattern(cleaned) /\ amountCents(cleaned) >= 1

isAmountValue(text) ==
  /\ Len(trim(text)) > 0
  /\ isAmountNumber(removeCommas(trim(text)))
  /\ ~isDateValue(text)

(***************************************************************************)
(* Arrays, objects and fractions                                           *)
(***************************************************************************)
\* [...items].sort((a, b) => keys[a] - keys[b]): a stable sort, ascending in keys
StableSort(items, keys) ==
  LET n == Len(items)
      rank(i) == Cardinality({j \in 1..n : keys[j] < keys[i] \/ (keys[j] = keys[i] /\ j < i)}) + 1
  IN [p \in 1..n |-> items[CHOOSE i \in 1..n : rank(i) = p]]

sortByX(items) == StableSort(items, [k \in 1..Len(items) |-> items[k].x])

sortByYDescending(items) == StableSort(items, [k \in 1..Len(items) |-> 0 - items[k].y])

\* Array.prototype.filter, by the set of the indices kept
RECURSIVE keepIndices(_, _)
keepIndices(seq, keep) ==
  IF Len(seq) = 0 THEN << >>
  ELSE keepIndices(SubSeq(seq, 1, Len(seq) - 1), keep)
       \o (IF Len(seq) \in keep THEN << seq[Len(seq)] >> ELSE << >>)

RECURSIVE flat(_)
flat(seqs) == IF Len(seqs) = 0 THEN << >> ELSE seqs[1] \o flat(Tail(seqs))

RECURSIVE sum(_)
sum(ns) == IF Len(ns) = 0 THEN 0 ELSE ns[1] + sum(Tail(ns))

Range(seq) == {seq[k] : k \in 1..Len(seq)}

\* A JavaScript object with string keys: the sequence of its <<key, value>>
\* entries in insertion order.
hasKey(obj, key) == \E k \in 1..Len(obj) : obj[k][1] = key

\* obj[key] || ''
get(obj, key) ==
  IF hasKey(obj, key) THEN obj[CHOOSE k \in 1..Len(obj) : obj[k][1] = key][2] ELSE ""

\* obj[key] = value
put(obj, key, value) ==
  IF hasKey(obj, key)
    THEN [k \in 1..Len(obj) |-> IF obj[k][1] = key THEN << key, value >> ELSE obj[k]]
    ELSE Append(obj, << key, value >>)

keysOf(obj) == [k \in 1..Len(obj) |-> obj[k][1]]

\* Object.values
valuesOf(obj) == [k \in 1..Len(obj) |-> obj[k][2]]

\* the value Infinity of an endX
Infinity == "Infinity"

\* item.x >= bound, for a bound <<numerator, denominator>>
atLeast(x, bound) == x * bound[2] >= bound[1]

\* item.x < bound, for a bound <<numerator, denominator>> or Infinity
below(x, bound) == bound = Infinity \/ x * bound[2] < bound[1]

\* (a + b) / 2 of two fractions
midpoint(a, b) == << a[1] * b[2] + b[1] * a[2], 2 * a[2] * b[2] >>

\* a < b and a = b of two fractions
fractionLess(a, b) == a[1] * b[2] < b[1] * a[2]

fractionEqual(a, b) == a[1] * b[2] = b[1] * a[2]

(***************************************************************************)
(* columnTypes pipeline (part_007): rows, header and columns               *)
(***************************************************************************)
rowTolerance == 3

\* groupSorted with the y of the previous fragment in place of the anchor
RECURSIVE groupSortedByPrevious(_, _, _, _)
groupSortedByPrevious(sortedByY, first, i, tolerance) ==
  IF i > Len(sortedByY)
    THEN << sortByX(SubSeq(sortedByY, first, Len(sortedByY))) >>
  ELSE LET yDiff == IF sortedByY[i - 1].y >= sortedByY[i].y
                      THEN sortedByY[i - 1].y - sortedByY[i].y
                      ELSE sortedByY[i].y - sortedByY[i - 1].y
       IN IF yDiff <= tolerance
            THEN groupSortedByPrevious(sortedByY, first, i + 1, tolerance)
            ELSE << sortByX(SubSeq(sortedByY, first, i - 1)) >>
                 \o groupSortedByPrevious(sortedByY, i, i + 1, tolerance)

\* the rows of groupItemsIntoRows, given the items sorted by descending y and
\* the largest y difference within a row: currentRow starts at index first,
\* whose y is the anchor currentY
RECURSIVE groupSorted(_, _, _, _)
groupSorted(sortedByY, first, i, tolerance) ==
  IF i > Len(sortedByY)
    THEN << sortByX(SubSeq(sortedByY, first, Len(sortedByY))) >>
  ELSE LET yDiff == IF sortedByY[first].y >= sortedByY[i].y
                      THEN sortedByY[first].y - sortedByY[i].y
                      ELSE sortedByY[i].y - sortedByY[first].y
       IN IF yDiff <= tolerance
            THEN groupSorted(sortedByY, first, i + 1, tolerance)
            ELSE << sortByX(SubSeq(sortedByY, first, i - 1)) >>
                 \o groupSorted(sortedByY, i, i + 1, tolerance)

groupItemsIntoRows(items) ==
  IF Len(items) = 0 THEN << >> ELSE groupSorted(sortByYDescending(items), 1, 2, rowTolerance)

rowText(row) == toLowerCase(join([k \in 1..Len(row) |-> row[k].text], " "))

footerKeywords ==
  << "end of statement", "closing balance", "page", "continued",
     "thank you", "regards", "total", "summary", "opening balance",
     "brought forward", "carried forward" >>

includesAny(text, keywords) == \E k \in 1..Len(keywords) : includes(text, keywords[k])

isFooterRow(row) == includesAny(rowText(row), footerKeywords)

headerLikeKeywords ==
  << "date", "description", "particulars", "debit", "credit",
     "withdrawal", "deposit", "balance", "amount", "transaction", "narration" >>

headerLikeThreshold == 2

includedCount(text, keywords) ==
  Cardinality({k \in 1..Len(keywords) : includes(text, keywords[k])})

isHeaderLikeRow(row) ==
  IF Len(row) < 2 THEN FALSE
  ELSE includedCount(rowText(row), headerLikeKeywords) >= headerLikeThreshold

headerKeywords ==
  << "date", "description", "particulars", "narration", "details",
     "debit", "credit", "withdrawal", "deposit", "balance",
     "amount", "transaction", "value", "chq", "cheque",
     "ref", "reference", "no", "number", "dr", "cr", "txn" >>

\* parseFloat(text.replace(/,/g, '')) > 10 for a text isAmountValue accepts
aboveTen(cleaned) == CharAt(cleaned, 1) # "-" /\ amountCents(cleaned) > 1000

amountAboveTen(text) == aboveTen(removeCommas(trim(text)))

hasDataLikeContent(row) ==
  \E k \in 1..Len(row) :
    isDateValue(row[k].text) \/ (isAmountValue(row[k].text) /\ amountAboveTen(row[k].text))

headerScoreThreshold == 3

\* Math.max(0, score)
atLeastZero(score) == IF score > 0 THEN score ELSE 0

\* the number of (fragment, keyword) pairs where the fragment contains the keyword
keywordHits(lower) ==
  Cardinality({ik \in (1..Len(lower)) \X (1..Len(headerKeywords)) :
                 includes(lower[ik[1]], headerKeywords[ik[2]])})

calculateHeaderScore(row) ==
  IF Len(row) < 2 THEN 0
  ELSE atLeastZero(2 * keywordHits([k \in 1..Len(row) |-> toLowerCase(row[k].text)])
                   - (IF hasDataLikeContent(row) THEN 10 ELSE 0)
                   + (IF Len(row) >= 3 THEN 1 ELSE 0)
                   + (IF Len(row) >= 5 THEN 1 ELSE 0))

\* text.replace(/\n/g, ' ').replace(/\s+/g, ' ').trim()
RECURSIVE collapseSpaces(_)
collapseSpaces(s) ==
  IF Len(s) < 2 THEN s
  ELSE IF CharAt(s, 1) \in Spaces /\ CharAt(s, 2) \in Spaces
    THEN collapseSpaces(SubSeq(s, 2, Len(s)))
    ELSE CharAt(s, 1) \o collapseSpaces(SubSeq(s, 2, Len(s)))

cleanHeaderText(text) == trim(collapseSpaces(text))

detectColumnType(headerText) ==
  LET lower == toLowerCase(headerText) IN
  IF includes(lower, "date") \/ includes(lower, "dt")
     \/ lower = "txn date" \/ lower = "value date"
    THEN "date"
  ELSE IF \/ includes(lower, "debit") \/ includes(lower, "credit")
          \/ includes(lower, "withdrawal") \/ includes(lower, "deposit")
          \/ includes(lower, "balance") \/ includes(lower, "amount")
          \/ includes(lower, "dr") \/ includes(lower, "cr")
          \/ lower = "withdrawals" \/ lower = "deposits"
    THEN "amount"
  ELSE "text"

headerScanRows == 20

\* the index (1-based) of the header row, or 0: the first row of the window
\* whose score is the largest, when that score reaches the threshold
firstBest(score) ==
  LET best == {k \in DOMAIN score :
                 /\ score[k] >= headerScoreThreshold
                 /\ \A m \in DOMAIN score : score[m] < score[k] \/ (score[m] = score[k] /\ m >= k)}
  IN IF best = {} THEN 0 ELSE CHOOSE k \in best : TRUE

\* the loop of detectHeaderAndColumns with the test score >= maxHeaderScore:
\* the last of the rows with the largest score
RECURSIVE scanForHeaderTakingLast(_, _, _, _)
scanForHeaderTakingLast(score, k, maxHeaderScore, index) ==
  IF k > Len(score) THEN index
  ELSE IF score[k] >= maxHeaderScore /\ score[k] >= headerScoreThreshold
    THEN scanForHeaderTakingLast(score, k + 1, score[k], k)
    ELSE scanForHeaderTakingLast(score, k + 1, maxHeaderScore, index)

\* the loop of detectHeaderAndColumns from row k (1-based) on: the index
\* (1-based) of the header row, or 0
RECURSIVE scanForHeader(_, _, _, _)
scanForHeader(score, k, maxHeaderScore, index) ==
  IF k > Len(score) THEN index
  ELSE IF score[k] > maxHeaderScore /\ score[k] >= headerScoreThreshold
    THEN scanForHeader(score, k + 1, score[k], k)
    ELSE scanForHeader(score, k + 1, maxHeaderScore, index)

headerRowIndex(rows) ==
  scanForHeader([k \in 1..(IF Len(rows) < headerScanRows THEN Len(rows) ELSE headerScanRows) |->
                   calculateHeaderScore(rows[k])], 1, 0, 0)

\* the columns detectHeaderAndColumns builds from the header row
headerStartX(sortedHeaders, i) ==
  IF i = 1 THEN << 0, 1 >>
  ELSE << sortedHeaders[i - 1].x + sortedHeaders[i - 1].width + sortedHeaders[i].x, 2 >>

headerEndX(sortedHeaders, i) ==
  IF i = Len(sortedHeaders) THEN Infinity
  ELSE << sortedHeaders[i].x + sortedHeaders[i].width + sortedHeaders[i + 1].x, 2 >>

columnsFromHeader(headerRow) ==
  LET sortedHeaders == sortByX(headerRow) IN
  [i \in 1..Len(sortedHeaders) |->
     [header |-> cleanHeaderText(sortedHeaders[i].text),
      startX |-> headerStartX(sortedHeaders, i),
      endX   |-> headerEndX(sortedHeaders, i),
      index  |-> i - 1,
      type   |-> detectColumnType(cleanHeaderText(sortedHeaders[i].text))]]

dataSampleRows == 15

typeSampleRows == 10

clusterThreshold == 15

\* slice(0, n)
firstN(seq, n) == SubSeq(seq, 1, IF Len(seq) < n THEN Len(seq) ELSE n)

\* clusterXPositions: a new cluster starts where the gap to the previous x
\* exceeds the threshold
RECURSIVE clusterXPositions(_, _)
clusterXPositions(sortedXs, threshold) ==
  IF Len(sortedXs) = 0 THEN << >>
  ELSE IF Len(sortedXs) = 1 THEN << sortedXs >>
  ELSE LET n == Len(sortedXs)
           before == clusterXPositions(SubSeq(sortedXs, 1, n - 1), threshold)
           lastCluster == before[Len(before)]
       IN IF sortedXs[n] - lastCluster[Len(lastCluster)] <= threshold
            THEN [before EXCEPT ![Len(before)] = Append(lastCluster, sortedXs[n])]
            ELSE Append(before, << sortedXs[n] >>)

inColumn(x, startX, endX) == atLeast(x, startX) /\ below(x, endX)

guessColumnTypeFromData(dataRows, startX, endX) ==
  LET items == flat(firstN(dataRows, typeSampleRows))
      samples == keepIndices(items, {k \in 1..Len(items) : inColumn(items[k].x, startX, endX)})
      dateCount == Cardinality({k \in 1..Len(samples) : isDateValue(samples[k].text)})
      amountCount == Cardinality({k \in 1..Len(samples) : isAmountValue(samples[k].text)})
  IN IF 2 * dateCount > Len(samples) THEN "date"
     ELSE IF 5 * amountCount > 2 * Len(samples) THEN "amount"
     ELSE "text"

\* the structure record of detectColumnsFromDataPatterns and detectHeaderAndColumns
structureOf(columns) ==
  [headers |-> [k \in 1..Len(columns) |-> columns[k].header],
   columns |-> columns,
   columnTypes |-> {<< columns[k].header,
                       columns[CHOOSE m \in 1..Len(columns) :
                                 /\ columns[m].header = columns[k].header
                                 /\ \A q \in (m + 1)..Len(columns) :
                                      columns[q].header # columns[k].header].type >> :
                    k \in 1..Len(columns)}]

\* the rows detectColumnsFromDataPatterns samples
dataRowsOf(rows) ==
  firstN(keepIndices(rows, {k \in 1..Len(rows) : Len(rows[k]) >= 2 /\ ~isFooterRow(rows[k])}),
         dataSampleRows)

xsOf(items) == [k \in 1..Len(items) |-> items[k].x]

\* xPositions.flat().sort((a, b) => a - b)
sortedXsOf(xs) == StableSort(xs, xs)

\* the clusters found in at least 40% of the sampled rows, as their averages
\* <<sum, length>>
columnCentersOf(clusters, rowCount) ==
  LET kept == keepIndices(clusters, {k \in 1..Len(clusters) : 5 * Len(clusters[k]) >= 2 * rowCount})
  IN [k \in 1..Len(kept) |-> << sum(kept[k]), Len(kept[k]) >>]

centerStartX(columnCenters, i) ==
  IF i = 1 THEN << 0, 1 >> ELSE midpoint(columnCenters[i - 1], columnCenters[i])

centerEndX(columnCenters, i) ==
  IF i = Len(columnCenters) THEN Infinity ELSE midpoint(columnCenters[i], columnCenters[i + 1])

columnsFromCenters(dataRows, columnCenters) ==
  [i \in 1..Len(columnCenters) |->
     [header |-> "Column " \o ToString(i),
      startX |-> centerStartX(columnCenters, i),
      endX   |-> centerEndX(columnCenters, i),
      index  |-> i - 1,
      type   |-> guessColumnTypeFromData(dataRows, centerStartX(columnCenters, i),
                                         centerEndX(columnCenters, i))]]

columnsFromDataRows(dataRows) ==
  IF Len(dataRows) = 0 THEN << >>
  ELSE columnsFromCenters(dataRows,
                          columnCentersOf(clusterXPositions(sortedXsOf(xsOf(flat(dataRows))),
                                                            clusterThreshold),
                                          Len(dataRows)))

detectColumnsFromDataPatterns(rows) == structureOf(columnsFromDataRows(dataRowsOf(rows)))

structureAt(rows, index) ==
  IF index = 0 THEN detectColumnsFromDataPatterns(rows)
  ELSE structureOf(columnsFromHeader(rows[index]))

detectHeaderAndColumns(rows) == structureAt(rows, headerRowIndex(rows))

(***************************************************************************)
(* columnTypes pipeline (part_007): transactions                           *)
(***************************************************************************)
\* the distinct labels of headers, in order of first occurrence: the keys of
\* the object mapRowToTransaction creates
RECURSIVE distinctInOrder(_)
distinctInOrder(seq) ==
  IF Len(seq) = 0 THEN << >>
  ELSE LET before == distinctInOrder(SubSeq(seq, 1, Len(seq) - 1))
       IN IF seq[Len(seq)] \in Range(before) THEN before ELSE Append(before, seq[Len(seq)])

emptyTransaction(headers) ==
  LET keys == distinctInOrder(headers) IN [k \in 1..Len(keys) |-> << keys[k], "" >>]

RECURSIVE fillColumns(_, _, _, _)
fillColumns(transaction, row, columns, c) ==
  IF c > Len(columns) THEN transaction
  ELSE LET items == keepIndices(row, {k \in 1..Len(row) :
                                        inColumn(row[k].x, columns[c].startX, columns[c].endX)})
           text == trim(join([k \in 1..Len(items) |-> items[k].text], " "))
       IN fillColumns(IF Len(items) > 0 THEN put(transaction, columns[c].header, text)
                      ELSE transaction,
                      row, columns, c + 1)

mapRowToTransaction(row, columns, headers) ==
  fillColumns(emptyTransaction(headers), row, columns, 1)

nonEmptyValues(transaction) ==
  keepIndices(valuesOf(transaction),
              {k \in 1..Len(transaction) : Len(trim(transaction[k][2])) > 0})

minimumValues == 2

hasMinimumData(transaction) == Len(nonEmptyValues(transaction)) >= minimumValues

isNewTransaction(transaction) ==
  \/ \E k \in 1..Len(transaction) : isDateValue(transaction[k][2])
  \/ Cardinality({k \in 1..Len(transaction) : isAmountValue(transaction[k][2])}) >= 2

\* mergeValue without the test that the text is already there
mergeValueAlwaysAppends(targetVal, sourceVal) ==
  IF sourceVal # "" /\ ~isDateValue(sourceVal) /\ ~isAmountValue(sourceVal)
    THEN IF targetVal # "" THEN trim(targetVal \o " " \o sourceVal) ELSE sourceVal
    ELSE targetVal

mergeValue(targetVal, sourceVal) ==
  IF sourceVal # "" /\ ~isDateValue(sourceVal) /\ ~isAmountValue(sourceVal)
    THEN IF targetVal # "" /\ ~includes(targetVal, sourceVal)
           THEN trim(targetVal \o " " \o sourceVal)
         ELSE IF targetVal = "" THEN sourceVal
         ELSE targetVal
    ELSE targetVal

\* target[header] is assigned only where the merge changes it
putIfChanged(target, key, value) ==
  IF value # get(target, key) THEN put(target, key, value) ELSE target

RECURSIVE mergeFrom(_, _, _, _)
mergeFrom(target, source, headers, h) ==
  IF h > Len(headers) THEN target
  ELSE mergeFrom(putIfChanged(target, headers[h],
                              mergeValue(get(target, headers[h]), get(source, headers[h]))),
                 source, headers, h + 1)

mergeTransactionData(target, source, headers) == mergeFrom(target, source, headers, 1)

\* text matches /a\s+b/ for some b of bs
includesSpaced(text, a, bs) ==
  \E i \in 1..Len(text) : \E j \in (i + Len(a))..Len(text) : \E b \in bs :
    /\ SubSeq(text, i, i + Len(a) - 1) = a
    /\ AllIn(SubSeq(text, i + Len(a), j), Spaces)
    /\ j + Len(b) <= Len(text)
    /\ SubSeq(text, j + 1, j + Len(b)) = b

matchesInvalidPattern(allText) ==
  \/ includesSpaced(allText, "opening", {"balance"})
  \/ includesSpaced(allText, "closing", {"balance"})
  \/ includesSpaced(allText, "total", {"debit", "credit"})
  \/ includesSpaced(allText, "brought", {"forward"})
  \/ includesSpaced(allText, "carried", {"forward"})
  \/ includesSpaced(allText, "page", Digits)
  \/ includes(allText, "continued")

isValidTransaction(transaction) ==
  LET values == nonEmptyValues(transaction) IN
  IF Len(values) < 2 THEN FALSE
  ELSE IF matchesInvalidPattern(toLowerCase(join(values, " "))) THEN FALSE
  ELSE \/ \E k \in 1..Len(values) : isDateValue(values[k])
       \/ \E k \in 1..Len(values) : isAmountValue(values[k])

\* JSON.stringify of an object of strings (no character of a fragment needs
\* escaping)
stringify(obj) ==
  "{" \o join([k \in 1..Len(obj) |-> "\"" \o obj[k][1] \o "\":\"" \o obj[k][2] \o "\""], ",") \o "}"

\* createTransactionKey without toLowerCase
createTransactionKeyKeepingCase(transaction) == stringify(transaction)

createTransactionKey(transaction) == toLowerCase(stringify(transaction))

maxContinuations == 3

\* the inner loop with continuationCount <= maxContinuations as its condition
RECURSIVE absorbContinuationsOneMore(_, _, _, _, _, _)
absorbContinuationsOneMore(pageRows, j, continuationCount, transaction, columns, headers) ==
  IF j > Len(pageRows) \/ continuationCount > maxContinuations
    THEN [transaction |-> transaction, next |-> j]
  ELSE IF isFooterRow(pageRows[j]) \/ isHeaderLikeRow(pageRows[j])
    THEN [transaction |-> transaction, next |-> j]
  ELSE IF isNewTransaction(mapRowToTransaction(pageRows[j], columns, headers))
    THEN [transaction |-> transaction, next |-> j]
  ELSE absorbContinuationsOneMore(pageRows, j + 1, continuationCount + 1,
                                  mergeTransactionData(transaction,
                                                       mapRowToTransaction(pageRows[j], columns,
                                                                           headers),
                                                       headers),
                                  columns, headers)

\* the inner loop of extractTransactionsFromPage from row j (1-based) on:
\* the merged transaction and the index of the first row not absorbed
RECURSIVE absorbContinuations(_, _, _, _, _, _)
absorbContinuations(pageRows, j, continuationCount, transaction, columns, headers) ==
  IF j > Len(pageRows) \/ continuationCount >= maxContinuations
    THEN [transaction |-> transaction, next |-> j]
  ELSE IF isFooterRow(pageRows[j]) \/ isHeaderLikeRow(pageRows[j])
    THEN [transaction |-> transaction, next |-> j]
  ELSE IF isNewTransaction(mapRowToTransaction(pageRows[j], columns, headers))
    THEN [transaction |-> transaction, next |-> j]
  ELSE absorbContinuations(pageRows, j + 1, continuationCount + 1,
                           mergeTransactionData(transaction,
                                                mapRowToTransaction(pageRows[j], columns, headers),
                                                headers),
                           columns, headers)

\* uniqueTransactions without seenTransactions.add(key)
RECURSIVE uniqueTransactionsNeverAdded(_, _)
uniqueTransactionsNeverAdded(pageTransactions, seen) ==
  IF Len(pageTransactions) = 0 THEN [unique |-> << >>, seen |-> seen]
  ELSE LET rest == uniqueTransactionsNeverAdded(Tail(pageTransactions), seen)
       IN IF createTransactionKey(pageTransactions[1]) \in seen THEN rest
          ELSE [unique |-> << pageTransactions[1] >> \o rest.unique, seen |-> rest.seen]

\* the transactions of pageTransactions whose key is new, and the keys seen
\* afterwards
RECURSIVE uniqueTransactions(_, _)
uniqueTransactions(pageTransactions, seen) ==
  IF Len(pageTransactions) = 0 THEN [unique |-> << >>, seen |-> seen]
  ELSE LET key == createTransactionKey(pageTransactions[1])
           rest == uniqueTransactions(Tail(pageTransactions), seen \cup {key})
       IN IF key \in seen THEN rest
          ELSE [unique |-> << pageTransactions[1] >> \o rest.unique, seen |-> rest.seen]

\* pages.flatMap(p => p.transactions)
allTransactionsOf(pageList) == flat([k \in 1..Len(pageList) |-> pageList[k].transactions])

\* detectsStructure without the condition: the structure is detected on every page
detectsOnEveryPage(index, headers) == TRUE

\* the condition under which processAllPages detects the structure on a page
detectsStructure(index, headers) == index = 0 \/ Len(headers) = 0

(***************************************************************************)
(* State                                                                   *)
(***************************************************************************)
VARIABLES
  allPagesData,      \* the argument: a sequence of pages, each a sequence of fragments
  pageIndex,         \* the 0-based index of the page loop
  globalHeaders, globalColumns, columnTypes,
  pages,             \* the PageData records pushed so far
  seenTransactions,  \* the Set of transaction keys
  rows,              \* the rows of the page being processed
  i,                 \* the 0-based row index of extractTransactionsFromPage
  transactions,      \* the transactions of the page being processed
  pc,                \* "page": at the head of the page loop; "rows": in the row loop; "done"
  result,            \* the returned record, once pc = "done"
  pageLog,           \* history: per processed page, whether the structure was detected and what was used
  rowLog,            \* history: per row of the current page, what the row loop did with it
  candidates,        \* history: per candidate transaction of the current page, its assembly
  extracted,         \* history: per processed page, what extractTransactionsFromPage returned
  allTransactions,   \* the transactions to return
  requests,          \* the requests the server still has to answer, the first being served
  response,          \* the body and status of the response to the request being served
  served             \* history: per answered request, the request, the response and the logs

vars == << allPagesData, pageIndex, globalHeaders, globalColumns, columnTypes, pages,
           seenTransactions, rows, i, transactions, pc, result, pageLog, rowLog, candidates,
           extracted, allTransactions, requests, response, served >>

serveVars == << requests, response, served >>

inputVars == << allPagesData, serveVars >>

documentVars == << globalHeaders, globalColumns, columnTypes, pages, seenTransactions, pageLog,
                   extracted, allTransactions >>

(***************************************************************************)
(* processAllPages of the columnTypes pipeline (part_007)                  *)
(***************************************************************************)
InitState(document) ==
  /\ allPagesData = document
  /\ pageIndex = 0
  /\ globalHeaders = << >>
  /\ globalColumns = << >>
  /\ columnTypes = {}
  /\ pages = << >>
  /\ seenTransactions = {}
  /\ rows = << >>
  /\ i = 0
  /\ transactions = << >>
  /\ pc = "page"
  /\ result = [returned |-> FALSE]
  /\ pageLog = << >>
  /\ rowLog = << >>
  /\ candidates = << >>
  /\ extracted = << >>
  /\ allTransactions = << >>
  /\ requests = << >>
  /\ response = [sent |-> FALSE]
  /\ served = << >>

\* SkipEmptyPage forgetting the structure and the keys at an empty page
SkipEmptyPageResets ==
  /\ pc = "page"
  /\ pageIndex < Len(allPagesData)
  /\ Len(allPagesData[pageIndex + 1]) = 0
  /\ pageIndex' = pageIndex + 1
  /\ globalHeaders' = << >>
  /\ globalColumns' = << >>
  /\ columnTypes' = {}
  /\ seenTransactions' = {}
  /\ UNCHANGED << inputVars, pages, rows, i, transactions, pc, result, pageLog,
                  rowLog, candidates, extracted, allTransactions >>

\* if (pageItems.length === 0) continue
SkipEmptyPage ==
  /\ pc = "page"
  /\ pageIndex < Len(allPagesData)
  /\ Len(allPagesData[pageIndex + 1]) = 0
  /\ pageIndex' = pageIndex + 1
  /\ UNCHANGED << inputVars, globalHeaders, globalColumns, columnTypes, pages,
                  seenTransactions, rows, i, transactions, pc, result, pageLog,
                  rowLog, candidates, extracted, allTransactions >>

\* the page loop up to the call of extractTransactionsFromPage, given whether
\* the structure is adopted
enterPage(pageRows, detects, structure, adopts) ==
  /\ rows' = pageRows
  /\ globalHeaders' = IF adopts THEN structure.headers ELSE globalHeaders
  /\ globalColumns' = IF adopts THEN structure.columns ELSE globalColumns
  /\ columnTypes' = IF adopts THEN structure.columnTypes ELSE columnTypes
  /\ pageLog' = Append(pageLog, [pageIndex |-> pageIndex,
                                 rows |-> pageRows,
                                 detected |-> detects,
                                 headersBefore |-> globalHeaders,
                                 headers |-> IF adopts THEN structure.headers ELSE globalHeaders,
                                 columns |-> IF adopts THEN structure.columns ELSE globalColumns,
                                 columnTypes |-> IF adopts THEN structure.columnTypes
                                                 ELSE columnTypes])

\* if (structure.headers.length > 0) { globalHeaders = structure.headers; ... }
adoptStructure(pageRows, structure) ==
  enterPage(pageRows, TRUE, structure, Len(structure.headers) > 0)

detectOnPage(pageRows) ==
  IF detectsStructure(pageIndex, globalHeaders)
    THEN adoptStructure(pageRows, detectHeaderAndColumns(pageRows))
    ELSE enterPage(pageRows, FALSE, [headers |-> << >>], FALSE)

\* groupItemsIntoRows, the detection of the structure, and the entry of
\* extractTransactionsFromPage
StartPage ==
  /\ pc = "page"
  /\ pageIndex < Len(allPagesData)
  /\ Len(allPagesData[pageIndex + 1]) > 0
  /\ detectOnPage(groupItemsIntoRows(allPagesData[pageIndex + 1]))
  /\ i' = 0
  /\ transactions' = << >>
  /\ rowLog' = << >>
  /\ candidates' = << >>
  /\ pc' = "rows"
  /\ UNCHANGED << inputVars, pageIndex, pages, seenTransactions, result, extracted,
                  allTransactions >>

hasStructure == Len(globalColumns) # 0 /\ Len(globalHeaders) # 0

inRowLoop == pc = "rows" /\ hasStructure /\ i < Len(rows)

\* if (isFooterRow(row) || isHeaderLikeRow(row) || row.length === 0) { i++; continue; }
SkipRow ==
  /\ inRowLoop
  /\ isFooterRow(rows[i + 1]) \/ isHeaderLikeRow(rows[i + 1]) \/ Len(rows[i + 1]) = 0
  /\ i' = i + 1
  /\ rowLog' = Append(rowLog, [row |-> i, role |-> "skipped", candidate |-> 0])
  /\ UNCHANGED << inputVars, documentVars, pageIndex, rows, transactions, pc, result, candidates >>

\* the else branch of if (hasMinimumData(transaction))
RowWithoutMinimumData ==
  /\ inRowLoop
  /\ ~(isFooterRow(rows[i + 1]) \/ isHeaderLikeRow(rows[i + 1]) \/ Len(rows[i + 1]) = 0)
  /\ ~hasMinimumData(mapRowToTransaction(rows[i + 1], globalColumns, globalHeaders))
  /\ i' = i + 1
  /\ rowLog' = Append(rowLog, [row |-> i, role |-> "nodata", candidate |-> 0])
  /\ UNCHANGED << inputVars, documentVars, pageIndex, rows, transactions, pc, result, candidates >>

\* pushAssembled with i = j - 1: the last absorbed row is examined again
pushAssembledFromLastAbsorbed(transaction, merged, next, valid) ==
  /\ transactions' = IF valid THEN Append(transactions, merged) ELSE transactions
  /\ i' = IF next - 1 > i + 1 THEN next - 2 ELSE next - 1
  /\ rowLog' = rowLog
                \o << [row |-> i, role |-> "start", candidate |-> Len(candidates) + 1] >>
                \o [k \in 1..(next - 1 - (i + 1)) |->
                      [row |-> i + k, role |-> "continuation", candidate |-> Len(candidates) + 1]]
  /\ candidates' = Append(candidates,
                          [start |-> i,
                           absorbed |-> next - 1 - (i + 1),
                           initial |-> transaction,
                           merged |-> merged,
                           accepted |-> valid])

\* the end of the then branch: the transaction is pushed if valid and i moves
\* to the first row not absorbed
pushAssembled(transaction, merged, next, valid) ==
  /\ transactions' = IF valid THEN Append(transactions, merged) ELSE transactions
  /\ i' = next - 1
  /\ rowLog' = rowLog
                \o << [row |-> i, role |-> "start", candidate |-> Len(candidates) + 1] >>
                \o [k \in 1..(next - 1 - (i + 1)) |->
                      [row |-> i + k, role |-> "continuation", candidate |-> Len(candidates) + 1]]
  /\ candidates' = Append(candidates,
                          [start |-> i,
                           absorbed |-> next - 1 - (i + 1),
                           initial |-> transaction,
                           merged |-> merged,
                           accepted |-> valid])

validateAssembled(transaction, absorbed) ==
  pushAssembled(transaction, absorbed.transaction, absorbed.next,
                isValidTransaction(absorbed.transaction))

assembleFrom(transaction) ==
  /\ hasMinimumData(transaction)
  /\ validateAssembled(transaction,
                       absorbContinuations(rows, i + 2, 0, transaction, globalColumns,
                                           globalHeaders))

\* the then branch of if (hasMinimumData(transaction)): the continuation rows
\* are merged, the transaction is pushed if valid, and i moves on
AssembleTransaction ==
  /\ inRowLoop
  /\ ~(isFooterRow(rows[i + 1]) \/ isHeaderLikeRow(rows[i + 1]) \/ Len(rows[i + 1]) = 0)
  /\ assembleFrom(mapRowToTransaction(rows[i + 1], globalColumns, globalHeaders))
  /\ UNCHANGED << inputVars, documentVars, pageIndex, rows, pc, result >>

\* pushPage with the 0-based index as page number
pushPageZeroBased(filtered) ==
  /\ seenTransactions' = filtered.seen
  /\ pages' = IF Len(filtered.unique) > 0
                THEN Append(pages, [pageNumber |-> pageIndex,
                                    transactions |-> filtered.unique])
                ELSE pages

\* if (uniquePageTransactions.length > 0) pages.push(...)
pushPage(filtered) ==
  /\ seenTransactions' = filtered.seen
  /\ pages' = IF Len(filtered.unique) > 0
                THEN Append(pages, [pageNumber |-> pageIndex + 1,
                                    transactions |-> filtered.unique])
                ELSE pages

\* the return of extractTransactionsFromPage, the filter on seenTransactions
\* and pages.push
EndPage ==
  /\ pc = "rows"
  /\ ~hasStructure \/ i >= Len(rows)
  /\ pushPage(uniqueTransactions(transactions, seenTransactions))
  /\ extracted' = Append(extracted, [pageIndex |-> pageIndex, transactions |-> transactions])
  /\ pageIndex' = pageIndex + 1
  /\ pc' = "page"
  /\ UNCHANGED << inputVars, globalHeaders, globalColumns, columnTypes, rows, i,
                  transactions, result, pageLog, rowLog, candidates, allTransactions >>

Return ==
  /\ pc = "page"
  /\ pageIndex >= Len(allPagesData)
  /\ allTransactions' = allTransactionsOf(pages)
  /\ result' = [returned |-> TRUE,
                transactions |-> allTransactionsOf(pages),
                pages |-> pages,
                headers |-> globalHeaders,
                columnTypes |-> columnTypes]
  /\ pc' = "done"
  /\ UNCHANGED << inputVars, pageIndex, globalHeaders, globalColumns, columnTypes, pages,
                  seenTransactions, rows, i, transactions, pageLog, rowLog, candidates,
                  extracted >>

Next ==
  \/ SkipEmptyPage
  \/ StartPage
  \/ SkipRow
  \/ RowWithoutMinimumData
  \/ AssembleTransaction
  \/ EndPage
  \/ Return

(***************************************************************************)
(* Input documents                                                         *)
(***************************************************************************)
MaxRows == 3          \* data rows under the header of a statement page
MaxPages == 3         \* pages of a multi-page document
MaxHeaderWidth == 100 \* the widest header fragment

\* the vertical distance of two lines of a page
lineHeight == 4 * rowTolerance

fragment(text, x, width) == [text |-> text, x |-> x, width |-> width]

\* the fragments of a page whose lines, top to bottom, are the given lines
pageOf(lines) ==
  flat([k \in 1..Len(lines) |->
          [f \in 1..Len(lines[k]) |->
             [text |-> lines[k][f].text, x |-> lines[k][f].x,
              y |-> lineHeight * (Len(lines) - k + 1), width |-> lines[k][f].width,
              height |-> 10]]])

\* sequences over pool of length at most n
RECURSIVE sequencesUpTo(_, _)
sequencesUpTo(pool, n) ==
  IF n = 0 THEN {<< >>}
  ELSE LET shorter == sequencesUpTo(pool, n - 1)
       IN shorter \cup {Append(s, e) : s \in shorter, e \in pool}

standardHeader ==
  << fragment("Date", 0, 40), fragment("Narration", 80, 60), fragment("Withdrawal", 220, 50),
     fragment("Deposit", 300, 40), fragment("Balance", 380, 40) >>

otherHeader ==
  << fragment("Value Date", 0, 40), fragment("Particulars", 100, 60),
     fragment("Amount", 250, 40), fragment("Balance", 380, 40) >>

salaryRow ==
  << fragment("01/02/2024", 0, 50), fragment("Salary", 80, 30),
     fragment("5,000.00", 300, 40), fragment("15,000.00", 380, 45) >>

atmRow ==
  << fragment("02/02/2024", 0, 50), fragment("ATM", 80, 20),
     fragment("500.00", 220, 30), fragment("14,500.00", 380, 45) >>

balanceTextRow == << fragment("balance", 80, 35) >>

repeatedTextRow == << fragment("Salary", 80, 30) >>

closingBalanceRow == << fragment("Closing Balance", 80, 70), fragment("14,500.00", 380, 45) >>

referenceRow ==
  << fragment("Ref123", 0, 30), fragment("Opening", 80, 35), fragment("10.00", 220, 25) >>

totalTextRow == << fragment("Total Energies", 80, 70) >>

salaryUpperCaseRow ==
  << fragment("01/02/2024", 0, 50), fragment("SALARY", 80, 30),
     fragment("5,000.00", 300, 40), fragment("15,000.00", 380, 45) >>

dataRowPool ==
  { salaryRow, atmRow, balanceTextRow, repeatedTextRow, closingBalanceRow, referenceRow,
    totalTextRow }

\* one page: the standard header over at most MaxRows data rows
statementPages ==
  { << pageOf(<< standardHeader >> \o body) >> : body \in sequencesUpTo(dataRowPool, MaxRows) }

\* a page of a multi-page document: empty, or the standard header or no
\* header over at most one transaction row
transactionLines == { << >>, << salaryRow >>, << salaryUpperCaseRow >>, << atmRow >> }

documentPagePool ==
  { pageOf(top \o body) : top \in { << >>, << standardHeader >> }, body \in transactionLines }

multiPageDocuments == sequencesUpTo(documentPagePool, MaxPages)

\* two pages, the second under another header row
headerChangeDocuments ==
  { << first, pageOf(<< otherHeader >> \o body) >> :
      first \in documentPagePool, body \in transactionLines }

\* one page whose header row has three fragments at any positions of a grid,
\* each of any width of a grid, over one transaction row
headerGeometryPages ==
  { << pageOf(<< << fragment("Date", xs[1], ws[1]), fragment("Narration", xs[2], ws[2]),
                    fragment("Balance", xs[3], ws[3]) >>,
                 salaryRow >>) >> :
      xs \in { t \in {0, 40, 80, 120} \X {0, 40, 80, 120} \X {0, 40, 80, 120} :
                 t[1] < t[2] /\ t[2] < t[3] },
      ws \in {0, 30, MaxHeaderWidth} \X {0, 30, MaxHeaderWidth} \X {0, 30, MaxHeaderWidth} }

Init ==
  \/ \E document \in statementPages : InitState(document)
  \/ \E document \in multiPageDocuments : InitState(document)
  \/ \E document \in headerChangeDocuments : InitState(document)
  \/ \E document \in headerGeometryPages : InitState(document)

Spec == Init /\ [][Next]_vars


(***************************************************************************)
(* Properties of the columnTypes pipeline (part_007)                       *)
(***************************************************************************)
\* the x positions at which a fragment is looked up in the column ranges
probePositions == {5 * k : k \in 0..100}

\* the page being processed took its columns from a detected header row
columnsFromHeaderRow ==
  /\ pc = "rows"
  /\ pageLog[Len(pageLog)].detected
  /\ headerRowIndex(rows) # 0

fractionAtMost(a, b) == fractionLess(a, b) \/ fractionEqual(a, b)

rangesAscend(columns) ==
  \A k \in 1..(Len(columns) - 1) : fractionAtMost(columns[k].startX, columns[k + 1].startX)

rangesContiguous(columns) ==
  /\ fractionEqual(columns[1].startX, << 0, 1 >>)
  /\ columns[Len(columns)].endX = Infinity
  /\ \A k \in 1..(Len(columns) - 1) :
       /\ columns[k].endX # Infinity
       /\ fractionEqual(columns[k].endX, columns[k + 1].startX)

rangesContaining(columns, x) ==
  {k \in 1..Len(columns) : inColumn(x, columns[k].startX, columns[k].endX)}

\* C1: the column ranges detectHeaderAndColumns builds from a header row are
\* sorted ascending by startX, start at 0, end at +infinity, leave no gap and
\* do not overlap, so that every fragment position x >= 0 lies in exactly one
\* range.
C1_HeaderRangesPartition ==
  columnsFromHeaderRow =>
    /\ rangesAscend(globalColumns)
    /\ rangesContiguous(globalColumns)
    /\ \A x \in probePositions : Cardinality(rangesContaining(globalColumns, x)) = 1

\* two transactions with the same columns whose values differ at most in
\* letter case
sameIgnoringCase(t, u) ==
  /\ keysOf(t) = keysOf(u)
  /\ \A k \in 1..Len(t) : toLowerCase(t[k][2]) = toLowerCase(u[k][2])

\* the transactions assembled on two different pages
assembledTwice ==
  UNION {Range(extracted[p[1]].transactions) \cap Range(extracted[p[2]].transactions) :
           p \in {q \in (1..Len(extracted)) \X (1..Len(extracted)) : q[1] < q[2]}}

\* the 1-based number of the first page on which a transaction satisfying
\* like was assembled
firstPageWith(like(_)) ==
  LET first == CHOOSE a \in 1..Len(extracted) :
                 /\ \E u \in Range(extracted[a].transactions) : like(u)
                 /\ \A c \in 1..(a - 1) : \A u \in Range(extracted[c].transactions) : ~like(u)
  IN extracted[first].pageIndex + 1

\* exactly one returned transaction satisfies like, and it is listed under page
onceUnderPage(like(_), page) ==
  /\ Cardinality({n \in 1..Len(result.transactions) : like(result.transactions[n])}) = 1
  /\ \E p \in 1..Len(result.pages) :
       /\ result.pages[p].pageNumber = page
       /\ \E n \in 1..Len(result.pages[p].transactions) : like(result.pages[p].transactions[n])

\* C2 (as stated): a transaction assembled on two different pages is returned
\* exactly once, under the earlier page.
C2_ExactlyOneInstance ==
  result.returned =>
    \A t \in assembledTwice :
      LET same(u) == u = t IN onceUnderPage(same, firstPageWith(same))

\* C2: of a transaction assembled on two different pages, the returned data
\* holds exactly one transaction equal to it up to letter case, listed under
\* the first page on which such a transaction was assembled.
C2_OneInstanceUpToCase ==
  result.returned =>
    \A t \in assembledTwice :
      LET same(u) == sameIgnoringCase(u, t) IN onceUnderPage(same, firstPageWith(same))

C2_Witness ==
  /\ result.returned
  /\ \E t \in assembledTwice :
       /\ \E n \in 1..Len(result.transactions) : result.transactions[n] = t
       /\ Len(result.pages) >= 2

\* C3: once a row containing "closing balance" has been met on a page, no
\* later row of that page starts a transaction or is merged into one.
C3_NothingAfterClosingBalance ==
  \A a \in 1..Len(rowLog) : \A b \in 1..Len(rowLog) :
    (/\ rowLog[a].row < rowLog[b].row
     /\ includes(toLowerCase(rowText(rows[rowLog[a].row + 1])), "closing balance"))
    => rowLog[b].role \notin {"start", "continuation"}


C3_Witness ==
  \E a \in 1..Len(rowLog) : \E b \in 1..Len(rowLog) :
    /\ rowLog[a].row < rowLog[b].row
    /\ includes(toLowerCase(rowText(rows[rowLog[a].row + 1])), "closing balance")
    /\ rowLog[b].role = "start"

\* the row (1-based index r) of the page being processed has text in exactly
\* one column, a column of type text, and that text is no date and no amount
textOnlyRow(r) ==
  LET mapped == mapRowToTransaction(rows[r], globalColumns, globalHeaders)
      filled == {k \in 1..Len(mapped) : mapped[k][2] # ""}
  IN /\ r <= Len(rows)
     /\ Cardinality(filled) = 1
     /\ \A k \in filled :
          /\ << mapped[k][1], "text" >> \in columnTypes
          /\ ~isDateValue(mapped[k][2])
          /\ ~isAmountValue(mapped[k][2])

\* current with text appended after a single space, unless text is already
\* part of it; an empty value takes the text
appended(current, text) ==
  IF current = "" THEN text
  ELSE IF includes(current, text) THEN current
  ELSE current \o " " \o text

\* initial with the text of a text-only row appended in the column of that text
withTextOf(initial, source) ==
  [k \in 1..Len(initial) |->
     IF get(source, initial[k][1]) # ""
       THEN << initial[k][1], appended(initial[k][2], get(source, initial[k][1])) >>
       ELSE initial[k]]

\* the candidate transaction absorbed the row after its start row and nothing
\* else, and holds the values of the start row with that row's text appended
mergedNextRow(candidate) ==
  /\ candidate.absorbed >= 1
  /\ \A other \in Range(candidates) : other.start # candidate.start + 1
  /\ candidate.absorbed = 1 =>
       candidate.merged =
         withTextOf(candidate.initial,
                    mapRowToTransaction(rows[candidate.start + 2], globalColumns, globalHeaders))

C7_DateColumnsHoldDates ==
  result.returned =>
    \A n \in 1..Len(result.transactions) : \A k \in 1..Len(result.transactions[n]) :
      << result.transactions[n][k][1], "date" >> \in result.columnTypes =>
        \/ result.transactions[n][k][2] = ""
        \/ isDateValue(result.transactions[n][k][2])

\* the structure in use is left as it is once the headers are set
structureKept ==
  Len(globalHeaders) > 0 =>
    /\ globalHeaders' = globalHeaders
    /\ globalColumns' = globalColumns
    /\ columnTypes' = columnTypes

\* the pages processed so far: detection ran on a page after the first only
\* with the headers empty, and every page after one with headers used the
\* same headers, columns and column types
pagesUseEstablished ==
  \A a \in 1..Len(pageLog) :
    /\ (pageLog[a].detected /\ pageLog[a].pageIndex > 0) => Len(pageLog[a].headersBefore) = 0
    /\ Len(pageLog[a].headers) > 0 =>
         \A b \in (a + 1)..Len(pageLog) :
           /\ pageLog[b].headers = pageLog[a].headers
           /\ pageLog[b].columns = pageLog[a].columns
           /\ pageLog[b].columnTypes = pageLog[a].columnTypes

\* C9: once the headers, columns and column types are set to a non-empty
\* value on some page, no later page changes them, every later page is
\* mapped with exactly them, and detection is attempted on a page after the
\* first only while the headers are empty.
C9_StructureFixedOnceSet == [][structureKept]_vars /\ []pagesUseEstablished

C9_Witness ==
  /\ pc = "rows"
  /\ Len(pageLog) >= 2
  /\ ~pageLog[Len(pageLog)].detected
  /\ headerRowIndex(rows) # 0
  /\ columnsFromHeader(rows[headerRowIndex(rows)]) # globalColumns

\* C10: the returned transactions are the concatenation of the pages'
\* transactions in order; the page numbers strictly increase; each is the
\* 1-based index of the source page, whose rows gave the listed
\* transactions; no page record is empty.
C10_PagesListTransactions ==
  result.returned =>
    /\ result.transactions =
         flat([p \in 1..Len(result.pages) |-> result.pages[p].transactions])
    /\ \A p \in 1..Len(result.pages) :
         /\ Len(result.pages[p].transactions) > 0
         /\ result.pages[p].pageNumber \in 1..Len(allPagesData)
         /\ \A q \in (p + 1)..Len(result.pages) :
              result.pages[p].pageNumber < result.pages[q].pageNumber
         /\ \E e \in Range(extracted) :
              /\ e.pageIndex + 1 = result.pages[p].pageNumber
              /\ Range(result.pages[p].transactions) \subseteq Range(e.transactions)

C10_Witness ==
  /\ result.returned
  /\ Len(result.pages) >= 2
  /\ result.pages[2].pageNumber > result.pages[1].pageNumber + 1


(***************************************************************************)
(* originalHeader pipeline (part_004): rows, header and columns            *)
(***************************************************************************)
rowTolerance_004 == 2

groupItemsIntoRows_004(items) ==
  IF Len(items) = 0 THEN << >>
  ELSE groupSorted(sortByYDescending(items), 1, 2, rowTolerance_004)

\* cleaned matches one of the amountPatterns of part_004
matchesAmountPattern_004(u) ==
  \/ Run(u, Digits, 1, Len(u))
  \/ \E d \in 2..(Len(u) - 1) :
       /\ CharAt(u, d) = "."
       /\ Run(SubSeq(u, 1, d - 1), Digits, 1, Len(u))
       /\ Run(SubSeq(u, d + 1, Len(u)), Digits, 1, 2)

isAmountValue_004(text) ==
  /\ Len(trim(text)) > 0
  /\ matchesAmountPattern_004(withoutSign(removeCommas(trim(text))))
  /\ ~isDateValue(text)

\* text.trim().split(/\s+/).length > 2: more than two words
hasMultipleWords(text) ==
  Cardinality({c \in 1..Len(text) :
                 /\ CharAt(text, c) \notin Spaces
                 /\ (c = 1 \/ CharAt(text, c - 1) \in Spaces)}) > 2

hasTransactionData(row) ==
  \E k \in 1..Len(row) :
    isDateValue(row[k].text) \/ isAmountValue_004(row[k].text) \/ hasMultipleWords(row[k].text)

headerKeywords_004 ==
  << "date", "description", "particulars", "narration", "details",
     "debit", "credit", "withdrawal", "deposit", "balance",
     "amount", "transaction", "value", "chq", "cheque",
     "ref", "reference", "no", "number", "dr", "cr" >>

calculateHeaderScore_004(row) ==
  IF Len(row) < 2 THEN 0
  ELSE atLeastZero(2 * includedCount(rowText(row), headerKeywords_004)
                   - (IF hasTransactionData(row) THEN 5 ELSE 0)
                   - (IF Len(row) < 3 THEN 2 ELSE 0))

headerScanRows_004 == 15

\* the index (1-based) of bestHeaderRow, or 0: score > bestHeaderScore && score > 2
bestHeaderRowIndex(pageRows) ==
  firstBest([k \in 1..(IF Len(pageRows) < headerScanRows_004 THEN Len(pageRows)
                      ELSE headerScanRows_004) |->
               calculateHeaderScore_004(pageRows[k])])

calculateColumnsFromHeader(headerRow) ==
  LET sortedHeaders == sortByX(headerRow) IN
  [c \in 1..Len(sortedHeaders) |->
     [header |-> sortedHeaders[c].text,
      originalHeader |-> sortedHeaders[c].text,
      startX |-> IF c = 1 THEN << 0, 1 >>
                 ELSE << sortedHeaders[c - 1].x + sortedHeaders[c].x, 2 >>,
      endX   |-> IF c = Len(sortedHeaders) THEN Infinity
                 ELSE << sortedHeaders[c].x + sortedHeaders[c + 1].x, 2 >>]]

headerRowKeywords_004 ==
  << "date", "description", "particulars", "debit", "credit",
     "withdrawal", "deposit", "balance", "amount", "transaction" >>

isHeaderRow_004(row) ==
  IF Len(row) < 2 THEN FALSE
  ELSE includedCount(rowText(row), headerRowKeywords_004) >= 2 /\ ~hasTransactionData(row)

footerKeywords_004 ==
  << "end of statement", "closing balance", "page", "continued",
     "thank you", "regards", "total", "summary", "opening balance" >>

isFooterRow_004(row) == includesAny(rowText(row), footerKeywords_004)

\* the clusters of detectColumnsFromData: an x joins the last cluster when it
\* lies within 10 of that cluster's first x
RECURSIVE clustersByFirst(_)
clustersByFirst(sortedXs) ==
  IF Len(sortedXs) = 0 THEN << >>
  ELSE IF Len(sortedXs) = 1 THEN << sortedXs >>
  ELSE LET n == Len(sortedXs)
           before == clustersByFirst(SubSeq(sortedXs, 1, n - 1))
           lastCluster == before[Len(before)]
       IN IF sortedXs[n] - lastCluster[1] <= 10
            THEN [before EXCEPT ![Len(before)] = Append(lastCluster, sortedXs[n])]
            ELSE Append(before, << sortedXs[n] >>)

\* the clusters found in at least 30% of the data rows, as their averages
\* <<sum, length>>
columnCentersOf_004(clusters, rowCount) ==
  LET kept == keepIndices(clusters,
                          {k \in 1..Len(clusters) : 10 * Len(clusters[k]) >= 3 * rowCount})
  IN [k \in 1..Len(kept) |-> << sum(kept[k]), Len(kept[k]) >>]

columnsFromCenters_004(columnCenters) ==
  [c \in 1..Len(columnCenters) |->
     [header |-> "Column_" \o ToString(c),
      originalHeader |-> "Column_" \o ToString(c),
      startX |-> centerStartX(columnCenters, c),
      endX   |-> centerEndX(columnCenters, c)]]

structureOf_004(columns) ==
  [headers |-> [c \in 1..Len(columns) |-> columns[c].header], columns |-> columns]

\* the rows detectColumnsFromData samples
dataRowsOf_004(pageRows) ==
  firstN(keepIndices(pageRows, {k \in 1..Len(pageRows) :
                              /\ ~isHeaderRow_004(pageRows[k])
                              /\ ~isFooterRow_004(pageRows[k])
                              /\ hasTransactionData(pageRows[k])
                              /\ Len(pageRows[k]) >= 2}),
         10)

columnsFromDataRows_004(dataRows) ==
  IF Len(dataRows) = 0 THEN << >>
  ELSE columnsFromCenters_004(
         columnCentersOf_004(clustersByFirst(sortedXsOf(xsOf(flat(dataRows)))), Len(dataRows)))

detectColumnsFromData(pageRows) == structureOf_004(columnsFromDataRows_004(dataRowsOf_004(pageRows)))

structureAt_004(pageRows, index) ==
  IF index = 0 THEN detectColumnsFromData(pageRows)
  ELSE [headers |-> [k \in 1..Len(pageRows[index]) |-> pageRows[index][k].text],
        columns |-> calculateColumnsFromHeader(pageRows[index])]

detectPageStructure(pageRows) == structureAt_004(pageRows, bestHeaderRowIndex(pageRows))

(***************************************************************************)
(* originalHeader pipeline (part_004): transactions                        *)
(***************************************************************************)
\* the index of the first column whose range holds x, or 0
firstColumnAt(x, columns) ==
  LET holding == {c \in 1..Len(columns) : inColumn(x, columns[c].startX, columns[c].endX)}
  IN IF holding = {} THEN 0 ELSE CHOOSE c \in holding : \A d \in holding : c <= d

\* columnItems[header] of mapRowToColumns
columnItems(row, columns, header) ==
  LET at == [k \in 1..Len(row) |-> firstColumnAt(row[k].x, columns)]
      items == keepIndices(row, {k \in 1..Len(row) :
                                   at[k] # 0 /\ columns[IF at[k] = 0 THEN 1 ELSE at[k]].header = header})
  IN [k \in 1..Len(items) |-> items[k].text]

RECURSIVE fillHeaders(_, _, _, _, _)
fillHeaders(transaction, row, columns, headers, h) ==
  IF h > Len(headers) THEN transaction
  ELSE fillHeaders(IF Len(columnItems(row, columns, headers[h])) > 0
                     THEN put(transaction, headers[h],
                              trim(join(columnItems(row, columns, headers[h]), " ")))
                     ELSE transaction,
                   row, columns, headers, h + 1)

mapRowToColumns(row, columns, headers) ==
  fillHeaders(emptyTransaction(headers), row, columns, headers, 1)

hasDateValue(transaction) == \E k \in 1..Len(transaction) : isDateValue(transaction[k][2])

hasAmountValue_004(transaction) ==
  \E k \in 1..Len(transaction) : isAmountValue_004(transaction[k][2])

isPotentialTransactionStart(transaction) ==
  /\ Len(nonEmptyValues(transaction)) >= 2
  /\ hasDateValue(transaction) \/ hasAmountValue_004(transaction)

findDateValue(transaction) ==
  IF hasDateValue(transaction)
    THEN transaction[CHOOSE k \in 1..Len(transaction) :
                       /\ isDateValue(transaction[k][2])
                       /\ \A m \in 1..(k - 1) : ~isDateValue(transaction[m][2])][2]
    ELSE ""

isNewTransaction_004(nextRowData, currentTransaction) ==
  \/ /\ findDateValue(nextRowData) # ""
     /\ findDateValue(currentTransaction) # ""
     /\ findDateValue(nextRowData) # findDateValue(currentTransaction)
  \/ Cardinality({k \in 1..Len(nextRowData) : isAmountValue_004(nextRowData[k][2])}) >= 2

isDescriptionHeader(header) ==
  \/ includes(toLowerCase(header), "desc")
  \/ includes(toLowerCase(header), "part")
  \/ includes(toLowerCase(header), "narr")
  \/ includes(toLowerCase(header), "detail")

\* merged[header] of mergeTransactionLines, from current[header] and next[header]
mergedLine(header, currentVal, nextVal, mergedVal) ==
  IF nextVal # "" /\ ~includes(currentVal, nextVal)
    THEN IF isDescriptionHeader(header) THEN trim(currentVal \o " " \o nextVal)
         ELSE IF currentVal = "" THEN nextVal
         ELSE mergedVal
    ELSE mergedVal

RECURSIVE mergeLinesFrom(_, _, _, _, _)
mergeLinesFrom(merged, current, next, headers, h) ==
  IF h > Len(headers) THEN merged
  ELSE mergeLinesFrom(putIfChanged(merged, headers[h],
                                   mergedLine(headers[h], get(current, headers[h]),
                                              get(next, headers[h]), get(merged, headers[h]))),
                      current, next, headers, h + 1)

mergeTransactionLines(current, next, headers) == mergeLinesFrom(current, current, next, headers, 1)

\* text matches /w1.*w2.*...wn/ for the words w1..wn
RECURSIVE includesInOrder(_, _)
includesInOrder(text, words) ==
  IF Len(words) = 0 THEN TRUE
  ELSE IF ~includes(text, words[1]) THEN FALSE
  ELSE includesInOrder(
         SubSeq(text,
                Len(words[1])
                + (CHOOSE c \in 1..Len(text) :
                     /\ c + Len(words[1]) - 1 <= Len(text)
                     /\ SubSeq(text, c, c + Len(words[1]) - 1) = words[1]
                     /\ \A d \in 1..(c - 1) : SubSeq(text, d, d + Len(words[1]) - 1) # words[1]),
                Len(text)),
         Tail(words))

isHeaderRowLike(text) ==
  \/ includesInOrder(text, << "date", "description", "debit", "credit" >>)
  \/ includesInOrder(text, << "particulars", "withdrawal", "deposit", "balance" >>)

isSummaryRow(text) ==
  \/ includesSpaced(text, "opening", {"balance"})
  \/ includesSpaced(text, "closing", {"balance"})
  \/ includesSpaced(text, "total", {"debit", "credit", "amount"})
  \/ includesSpaced(text, "grand", {"total"})
  \/ includesSpaced(text, "account", {"summary"})

isValidTransaction_004(transaction) ==
  IF Len(nonEmptyValues(transaction)) < 2 THEN FALSE
  ELSE IF isHeaderRowLike(toLowerCase(join(nonEmptyValues(transaction), " "))) THEN FALSE
  ELSE IF isSummaryRow(toLowerCase(join(nonEmptyValues(transaction), " "))) THEN FALSE
  ELSE /\ hasDateValue(transaction) \/ hasAmountValue_004(transaction)
       /\ Len(join(nonEmptyValues(transaction), "")) > 5

firstAmountValue(transaction) ==
  IF hasAmountValue_004(transaction)
    THEN transaction[CHOOSE k \in 1..Len(transaction) :
                       /\ isAmountValue_004(transaction[k][2])
                       /\ \A m \in 1..(k - 1) : ~isAmountValue_004(transaction[m][2])][2]
    ELSE ""

createTransactionKey_004(transaction) ==
  toLowerCase(findDateValue(transaction) \o "|" \o firstAmountValue(transaction) \o "|"
              \o stringify(transaction))

maxContinuations_004 == 5

\* the inner loop of extractTransactionsFromPage from row j (1-based) on:
\* the merged transaction and the index of the first row not absorbed
RECURSIVE absorbContinuations_004(_, _, _, _, _, _)
absorbContinuations_004(pageRows, j, continuations, transactionData, columns, headers) ==
  IF j > Len(pageRows) \/ continuations >= maxContinuations_004
    THEN [transaction |-> transactionData, next |-> j]
  ELSE IF isFooterRow_004(pageRows[j]) \/ isHeaderRow_004(pageRows[j])
    THEN [transaction |-> transactionData, next |-> j]
  ELSE IF isNewTransaction_004(mapRowToColumns(pageRows[j], columns, headers), transactionData)
    THEN [transaction |-> transactionData, next |-> j]
  ELSE absorbContinuations_004(pageRows, j + 1, continuations + 1,
                               mergeTransactionLines(transactionData,
                                                     mapRowToColumns(pageRows[j], columns, headers),
                                                     headers),
                               columns, headers)


\* the transaction extractTransactionsWithoutStructure creates from a row
simpleTransaction(row, columnCount) ==
  [col \in 1..(IF columnCount < Len(row) THEN columnCount ELSE Len(row)) |->
     << "Column_" \o ToString(col), row[col].text >>]

shouldMergeWithNext(nextRow, currentTransaction) ==
  IF isHeaderRow_004(nextRow) \/ isFooterRow_004(nextRow) \/ Len(nextRow) = 0 THEN FALSE
  ELSE IF \E k \in 1..Len(nextRow) : isDateValue(nextRow[k].text) THEN FALSE
  ELSE Cardinality({k \in 1..Len(nextRow) : isAmountValue_004(nextRow[k].text)}) < 2

\* the for loop over col that merges rows[j] into the transaction
RECURSIVE mergeRowInto(_, _, _, _)
mergeRowInto(transaction, nextRow, columnCount, col) ==
  IF col > columnCount \/ col > Len(nextRow) THEN transaction
  ELSE mergeRowInto(
         IF /\ nextRow[col].text # ""
            /\ ~includes(get(transaction, "Column_" \o ToString(col)), nextRow[col].text)
           THEN put(transaction, "Column_" \o ToString(col),
                    get(transaction, "Column_" \o ToString(col)) \o " " \o nextRow[col].text)
           ELSE transaction,
         nextRow, columnCount, col + 1)

\* while (j < rows.length && shouldMergeWithNext(rows[j], transaction))
RECURSIVE mergeFollowing(_, _, _, _)
mergeFollowing(pageRows, j, transaction, columnCount) ==
  IF j > Len(pageRows) THEN [transaction |-> transaction, next |-> j]
  ELSE IF ~shouldMergeWithNext(pageRows[j], transaction)
    THEN [transaction |-> transaction, next |-> j]
  ELSE mergeFollowing(pageRows, j + 1, mergeRowInto(transaction, pageRows[j], columnCount, 1),
                      columnCount)

\* columnCounts.reduce((a, b) => count(a) >= count(b) ? a : b)
RECURSIVE modeFrom(_, _, _)
modeFrom(columnCounts, a, k) ==
  IF k > Len(columnCounts) THEN a
  ELSE modeFrom(columnCounts,
                IF Cardinality({m \in 1..Len(columnCounts) : columnCounts[m] = a})
                   >= Cardinality({m \in 1..Len(columnCounts) : columnCounts[m] = columnCounts[k]})
                  THEN a ELSE columnCounts[k],
                k + 1)

columnCountOf(dataRows) ==
  IF Len(dataRows) = 0 THEN 3
  ELSE modeFrom([k \in 1..Len(dataRows) |-> Len(dataRows[k])], Len(dataRows[1]), 2)

detectColumnCountFromData(pageRows) ==
  columnCountOf(firstN(keepIndices(pageRows, {k \in 1..Len(pageRows) :
                                                /\ ~isHeaderRow_004(pageRows[k])
                                                /\ ~isFooterRow_004(pageRows[k])
                                                /\ hasTransactionData(pageRows[k])}),
                       20))

pushIfValid(transaction) ==
  IF isValidTransaction_004(transaction) THEN << transaction >> ELSE << >>

\* the for loop of extractTransactionsWithoutStructure from row r (1-based) on
RECURSIVE withoutStructureFrom(_, _, _)

\* the rest of the loop once the rows after a transaction start are merged
withMergedRows(pageRows, columnCount, merged) ==
  pushIfValid(merged.transaction) \o withoutStructureFrom(pageRows, merged.next, columnCount)

withoutStructureFrom(pageRows, r, columnCount) ==
  IF r > Len(pageRows) THEN << >>
  ELSE IF isHeaderRow_004(pageRows[r]) \/ isFooterRow_004(pageRows[r]) \/ Len(pageRows[r]) = 0
    THEN withoutStructureFrom(pageRows, r + 1, columnCount)
  ELSE IF isPotentialTransactionStart(simpleTransaction(pageRows[r], columnCount))
    THEN withMergedRows(pageRows, columnCount,
                        mergeFollowing(pageRows, r + 1,
                                       simpleTransaction(pageRows[r], columnCount), columnCount))
  ELSE pushIfValid(simpleTransaction(pageRows[r], columnCount))
       \o withoutStructureFrom(pageRows, r + 1, columnCount)

extractTransactionsWithoutStructure(pageRows) ==
  withoutStructureFrom(pageRows, 1, detectColumnCountFromData(pageRows))


(***************************************************************************)
(* processAllPages of the originalHeader pipeline (part_004)               *)
(***************************************************************************)
\* a structure of part_004, which has no column types
untyped(structure) ==
  [headers |-> structure.headers, columns |-> structure.columns, columnTypes |-> {}]

detectOnPage_004(pageRows) ==
  IF detectsStructure(pageIndex, globalHeaders)
    THEN adoptStructure(pageRows, untyped(detectPageStructure(pageRows)))
    ELSE enterPage(pageRows, FALSE, [headers |-> << >>], FALSE)

\* groupItemsIntoRows, the detection of the structure, and the entry of
\* extractTransactionsFromPage
StartPage_004 ==
  /\ pc = "page"
  /\ pageIndex < Len(allPagesData)
  /\ Len(allPagesData[pageIndex + 1]) > 0
  /\ detectOnPage_004(groupItemsIntoRows_004(allPagesData[pageIndex + 1]))
  /\ i' = 0
  /\ transactions' = << >>
  /\ rowLog' = << >>
  /\ candidates' = << >>
  /\ pc' = "rows"
  /\ UNCHANGED << inputVars, pageIndex, pages, seenTransactions, result, extracted,
                  allTransactions >>

\* if (columns.length === 0 || headers.length === 0)
\*   return extractTransactionsWithoutStructure(rows)
ExtractWithoutStructure ==
  /\ pc = "rows"
  /\ ~hasStructure
  /\ i < Len(rows)
  /\ transactions' = extractTransactionsWithoutStructure(rows)
  /\ i' = Len(rows)
  /\ UNCHANGED << inputVars, documentVars, pageIndex, rows, pc, result, rowLog, candidates >>

skipped_004(row) == isHeaderRow_004(row) \/ isFooterRow_004(row) \/ Len(row) = 0

\* if (isHeaderRow(row) || isFooterRow(row) || row.length === 0) { i++; continue; }
SkipRow_004 ==
  /\ inRowLoop
  /\ skipped_004(rows[i + 1])
  /\ i' = i + 1
  /\ rowLog' = Append(rowLog, [row |-> i, role |-> "skipped", candidate |-> 0])
  /\ UNCHANGED << inputVars, documentVars, pageIndex, rows, transactions, pc, result, candidates >>

\* the else branch of if (isPotentialTransactionStart(potentialTransaction))
NotTransactionStart ==
  /\ inRowLoop
  /\ ~skipped_004(rows[i + 1])
  /\ ~isPotentialTransactionStart(mapRowToColumns(rows[i + 1], globalColumns, globalHeaders))
  /\ i' = i + 1
  /\ rowLog' = Append(rowLog, [row |-> i, role |-> "nodata", candidate |-> 0])
  /\ UNCHANGED << inputVars, documentVars, pageIndex, rows, transactions, pc, result, candidates >>

validateAssembled_004(transaction, absorbed) ==
  pushAssembled(transaction, absorbed.transaction, absorbed.next,
                isValidTransaction_004(absorbed.transaction))

assembleFrom_004(potentialTransaction) ==
  /\ isPotentialTransactionStart(potentialTransaction)
  /\ validateAssembled_004(potentialTransaction,
                           absorbContinuations_004(rows, i + 2, 0, potentialTransaction,
                                                   globalColumns, globalHeaders))

\* the then branch of if (isPotentialTransactionStart(potentialTransaction))
AssembleTransaction_004 ==
  /\ inRowLoop
  /\ ~skipped_004(rows[i + 1])
  /\ assembleFrom_004(mapRowToColumns(rows[i + 1], globalColumns, globalHeaders))
  /\ UNCHANGED << inputVars, documentVars, pageIndex, rows, pc, result >>

\* allTransactions.push(transaction) ahead of the rest of the loop
addedFirst(transaction, rest) ==
  [unique |-> << transaction >> \o rest.unique, seen |-> rest.seen]

\* the transactions of pageTransactions that are valid and whose key is new,
\* and the keys seen afterwards
RECURSIVE uniqueValidTransactions(_, _)
uniqueValidTransactions(pageTransactions, seen) ==
  IF Len(pageTransactions) = 0 THEN [unique |-> << >>, seen |-> seen]
  ELSE IF \/ createTransactionKey_004(pageTransactions[1]) \in seen
          \/ ~isValidTransaction_004(pageTransactions[1])
    THEN uniqueValidTransactions(Tail(pageTransactions), seen)
  ELSE addedFirst(pageTransactions[1],
                  uniqueValidTransactions(Tail(pageTransactions),
                                          seen \cup {createTransactionKey_004(pageTransactions[1])}))

pushUnique(filtered) ==
  /\ seenTransactions' = filtered.seen
  /\ allTransactions' = allTransactions \o filtered.unique

\* the return of extractTransactionsFromPage and the loop that adds the
\* unique transactions
EndPage_004 ==
  /\ pc = "rows"
  /\ i >= Len(rows)
  /\ pushUnique(uniqueValidTransactions(transactions, seenTransactions))
  /\ extracted' = Append(extracted, [pageIndex |-> pageIndex, transactions |-> transactions])
  /\ pageIndex' = pageIndex + 1
  /\ pc' = "page"
  /\ UNCHANGED << inputVars, globalHeaders, globalColumns, columnTypes, pages, rows, i,
                  transactions, result, pageLog, rowLog, candidates >>

Return_004 ==
  /\ pc = "page"
  /\ pageIndex >= Len(allPagesData)
  /\ result' = [returned |-> TRUE, transactions |-> allTransactions, headers |-> globalHeaders]
  /\ pc' = "done"
  /\ UNCHANGED << inputVars, pageIndex, globalHeaders, globalColumns, columnTypes, pages,
                  seenTransactions, rows, i, transactions, pageLog, rowLog, candidates,
                  extracted, allTransactions >>

Next_004 ==
  \/ SkipEmptyPage
  \/ StartPage_004
  \/ ExtractWithoutStructure
  \/ SkipRow_004
  \/ NotTransactionStart
  \/ AssembleTransaction_004
  \/ EndPage_004
  \/ Return_004

(***************************************************************************)
(* Input documents of the originalHeader pipeline                          *)
(***************************************************************************)
MaxRaggedRows == 4    \* rows of a page whose rows are indented differently

depositRow ==
  << fragment("01/02/2024", 0, 50), fragment("Salary", 80, 30), fragment("5,000.00", 300, 40) >>

\* a second transaction of the same day
chargesRow ==
  << fragment("01/02/2024", 0, 50), fragment("Charges", 80, 35), fragment("25.00", 220, 25) >>

withdrawalRow ==
  << fragment("02/02/2024", 0, 50), fragment("ATM", 80, 20), fragment("500.00", 220, 30) >>

transferTextRow == << fragment("by transfer", 80, 50) >>

dataRowPool_004 == { depositRow, chargesRow, withdrawalRow, salaryRow, transferTextRow }

statementPages_004 ==
  { << pageOf(top \o body) >> :
      top \in { << >>, << standardHeader >> }, body \in sequencesUpTo(dataRowPool_004, MaxRows) }

documentPagePool_004 ==
  { << >>, pageOf(<< standardHeader, depositRow >>), pageOf(<< depositRow >>),
    pageOf(<< standardHeader, chargesRow, transferTextRow >>) }

multiPageDocuments_004 == sequencesUpTo(documentPagePool_004, MaxPages)

\* the k-th row of a page without header whose rows start step further right
\* each
raggedRow(k, step) ==
  << fragment("0" \o ToString(k) \o "/02/2024", step * (k - 1), 50),
     fragment(ToString(k) \o "00.00", 200 + step * (k - 1), 30) >>

raggedPages ==
  { << pageOf([k \in 1..n |-> raggedRow(k, step)]) >> :
      n \in 1..MaxRaggedRows, step \in { 0, 5, 30 } }

Init_004 ==
  \/ \E document \in statementPages_004 : InitState(document)
  \/ \E document \in multiPageDocuments_004 : InitState(document)
  \/ \E document \in raggedPages : InitState(document)

SpecOriginalHeader == Init_004 /\ [][Next_004]_vars

(***************************************************************************)
(* Properties of the originalHeader pipeline (part_004)                    *)
(***************************************************************************)
\* the row (1-based index r) of the page being processed is a data row with
\* a date value and an amount value of its own
datedAmountRow(r) ==
  /\ r <= Len(rows)
  /\ ~skipped_004(rows[r])
  /\ hasDateValue(mapRowToColumns(rows[r], globalColumns, globalHeaders))
  /\ hasAmountValue_004(mapRowToColumns(rows[r], globalColumns, globalHeaders))

\* C4: a row with its own date value and an amount value that follows the
\* start row of a transaction is never merged into that transaction,
\* whatever the two dates are: it starts a transaction of its own.
C4_DatedRowNeverMerged ==
  \A c \in Range(candidates) :
    datedAmountRow(c.start + 2) =>
      /\ c.absorbed = 0
      /\ i > c.start + 1 => \E d \in Range(candidates) : d.start = c.start + 1

\* C8: every returned transaction has a key set equal to the set of labels
\* of the returned headers.
C8_KeysAreHeaders ==
  result.returned =>
    \A n \in 1..Len(result.transactions) :
      Range(keysOf(result.transactions[n])) = Range(result.headers)


(***************************************************************************)
(* ColumnRange pipeline (process-pdf/index.ts): rows, header and ranges    *)
(***************************************************************************)
\* the patterns of isValidDate, which are anchored at the start only
matchesDateStart(t) ==
  \E n \in 1..Len(t) :
    \/ Match3(SubSeq(t, 1, n), {"-", "/"}, <<Digits, 1, 2>>, <<Digits, 1, 2>>, <<Digits, 2, 4>>)
    \/ Match3Spaced(SubSeq(t, 1, n), <<Digits, 1, 2>>, <<WordChars, 3, 3>>, <<Digits, 4, 4>>)
    \/ Match3(SubSeq(t, 1, n), {"-", "/"}, <<Digits, 4, 4>>, <<Digits, 1, 2>>, <<Digits, 1, 2>>)
    \/ Match3Spaced(SubSeq(t, 1, n), <<Digits, 1, 2>>, <<Letters, 1, n>>, <<Digits, 4, 4>>)

isValidDate(text) == matchesDateStart(trim(text))

\* yGaps.sort(...)[Math.floor(yGaps.length / 2)], or 5: the gaps above 0.5
\* between fragments that follow each other in descending y
medianGapOf(sortedByY) ==
  LET gaps == [k \in 1..(Len(sortedByY) - 1) |-> sortedByY[k].y - sortedByY[k + 1].y]
      yGaps == sortedXsOf(keepIndices(gaps, {k \in 1..Len(gaps) : gaps[k] >= 1}))
  IN IF Len(yGaps) > 0 THEN yGaps[(Len(yGaps) \div 2) + 1] ELSE 5

\* 10 * Math.max(3, Math.min(medianGap * 0.7, 8))
toleranceTenths(medianGap) ==
  IF 7 * medianGap < 30 THEN 30 ELSE IF 7 * medianGap > 80 THEN 80 ELSE 7 * medianGap

\* Math.round(item.y / tolerance), which orders the rows as rowKey does
rowKeyOf(y, tenths) == (20 * y + tenths) \div (2 * tenths)

\* the rows of rowMap in descending order of rowKey
rowsByKey(items, keys) ==
  LET distinct == distinctInOrder(StableSort(keys, [k \in 1..Len(keys) |-> 0 - keys[k]]))
  IN [r \in 1..Len(distinct) |->
        sortByX(keepIndices(items, {k \in 1..Len(items) : keys[k] = distinct[r]}))]

keyedRows(items, tenths) ==
  rowsByKey(items, [k \in 1..Len(items) |-> rowKeyOf(items[k].y, tenths)])

groupItemsIntoRows_index(items) ==
  IF Len(items) = 0 THEN << >>
  ELSE keyedRows(items, toleranceTenths(medianGapOf(sortByYDescending(items))))

headerKeywords_index ==
  << "date", "description", "particulars", "debit", "credit",
     "withdrawal", "deposit", "balance", "amount", "transaction",
     "reference", "memo", "cheque", "narration", "details", "value",
     "txn", "chq", "ref", "dr", "cr" >>

isHeaderRow_index(row) ==
  IF Len(row) < 2 THEN FALSE
  ELSE /\ Cardinality({k \in 1..Len(row) :
                         includesAny(toLowerCase(row[k].text), headerKeywords_index)}) >= 2
       /\ ~\E k \in 1..Len(row) : isValidDate(toLowerCase(row[k].text))

footerKeywords_index ==
  << "end of statement", "closing balance", "page", "continued",
     "thank you", "regards", "signature", "generated", "statement from",
     "terms and conditions", "statement period", "account summary",
     "opening balance", "total debit", "total credit", "account number",
     "ifsc", "branch", "customer", "address" >>

isFooterRow_index(row) == includesAny(rowText(row), footerKeywords_index)

\* the index (1-based) of the first header row among the first 40 rows, or 0
firstHeaderRow(pageRows) ==
  LET found == {r \in 1..Len(pageRows) : r <= 40 /\ isHeaderRow_index(pageRows[r])}
  IN IF found = {} THEN 0 ELSE CHOOSE r \in found : \A q \in found : r <= q

\* the positions of the gaps between the sorted x of the sample rows that can
\* be relevant: those above 30 (xGaps holds the gaps above 20, relevantGaps
\* keeps those above 30)
xGapsOf(allXPositions) ==
  LET wide == keepIndices(allXPositions,
                          {k \in 1..Len(allXPositions) :
                             /\ k < Len(allXPositions)
                             /\ allXPositions[IF k < Len(allXPositions) THEN k + 1 ELSE k]
                                - allXPositions[k] > 30})
      after == keepIndices(allXPositions,
                           {k \in 2..Len(allXPositions) :
                              allXPositions[k] - allXPositions[k - 1] > 30})
  IN [g \in 1..Len(wide) |-> << wide[g] + after[g], 2 >>]

\* relevantGaps: the gaps strictly between the x of two neighbouring headers
relevantGapsOf(xGaps, currentX, nextX) ==
  keepIndices(xGaps, {g \in 1..Len(xGaps) :
                        /\ xGaps[g][1] > 2 * currentX
                        /\ xGaps[g][1] < 2 * nextX})

maxXOf(relevantGaps, currentX, nextX) ==
  IF Len(relevantGaps) > 0 THEN relevantGaps[1] ELSE << currentX + nextX, 2 >>

rangesFrom(sortedHeaders, xGaps) ==
  [c \in 1..Len(sortedHeaders) |->
     [header |-> sortedHeaders[c].text,
      minX |-> sortedHeaders[c].x - 10,
      maxX |-> IF c = Len(sortedHeaders) THEN Infinity
               ELSE maxXOf(relevantGapsOf(xGaps, sortedHeaders[c].x, sortedHeaders[c + 1].x),
                           sortedHeaders[c].x, sortedHeaders[c + 1].x),
      centerX |-> sortedHeaders[c].x]]

\* headerIndex is headerRowIndex, 1-based: the sample rows are the 19 rows below the header
calculateColumnRanges(headerRow, headers, allRows, headerIndex) ==
  rangesFrom(sortByX(headerRow),
             xGapsOf(sortedXsOf(xsOf(flat(SubSeq(allRows, headerIndex + 1,
                                                 IF headerIndex + 19 < Len(allRows)
                                                   THEN headerIndex + 19
                                                   ELSE Len(allRows))))))) 

(***************************************************************************)
(* ColumnRange pipeline (process-pdf/index.ts): transactions               *)
(***************************************************************************)
distance(a, b) == IF a >= b THEN a - b ELSE b - a

\* the index of the range mapRowToColumns picks for a fragment at x, or 0
bestMatch(x, columnRanges) ==
  LET holding == {c \in 1..Len(columnRanges) :
                    /\ x >= columnRanges[c].minX
                    /\ below(x, columnRanges[c].maxX)
                    /\ 1000 - distance(x, columnRanges[c].centerX) > 0 - 1}
  IN IF holding = {} THEN 0
     ELSE CHOOSE c \in holding :
            \A d \in holding :
              \/ distance(x, columnRanges[c].centerX) < distance(x, columnRanges[d].centerX)
              \/ (/\ distance(x, columnRanges[c].centerX) = distance(x, columnRanges[d].centerX)
                  /\ c <= d)

\* the fragments of the row whose best range has the header, joined and trimmed
textUnder(row, columnRanges, header) ==
  LET at == [k \in 1..Len(row) |-> bestMatch(row[k].x, columnRanges)]
      items == keepIndices(row, {k \in 1..Len(row) :
                                   /\ at[k] # 0
                                   /\ columnRanges[IF at[k] = 0 THEN 1 ELSE at[k]].header = header})
  IN trim(join([k \in 1..Len(items) |-> items[k].text], " "))

mapRowToColumns_index(row, columnRanges, headers) ==
  LET keys == distinctInOrder(headers)
  IN [k \in 1..Len(keys) |-> << keys[k], textUnder(row, columnRanges, keys[k]) >>]

isDateHeader(header) ==
  \/ includes(toLowerCase(header), "date")
  \/ toLowerCase(header) = "dt"
  \/ toLowerCase(header) = "txn date"

\* headers.find(...) || headers[0]
dateHeaderOf(headers) ==
  IF \E h \in 1..Len(headers) : isDateHeader(headers[h])
    THEN headers[CHOOSE h \in 1..Len(headers) :
                   isDateHeader(headers[h]) /\ \A g \in 1..(h - 1) : ~isDateHeader(headers[g])]
    ELSE headers[1]

\* the labels the start row's hasAmount looks at
isAmountHeader(header) ==
  includesAny(toLowerCase(header),
              << "withdrawal", "deposit", "debit", "credit", "balance", "amount" >>)

\* the labels nextHasAmount looks at
isContinuationAmountHeader(header) ==
  includesAny(toLowerCase(header), << "withdrawal", "deposit", "debit", "credit", "balance" >>)

hasDate(transaction, headers) == isValidDate(get(transaction, dateHeaderOf(headers)))

hasAmount(transaction, headers) ==
  \E h \in 1..Len(headers) :
    isAmountHeader(headers[h]) /\ Len(trim(get(transaction, headers[h]))) > 0

\* /\d/.test(text)
hasDigit(text) == \E c \in 1..Len(text) : CharAt(text, c) \in Digits

nextHasAmount(nextTransaction, headers) ==
  \E h \in 1..Len(headers) :
    isContinuationAmountHeader(headers[h]) /\ hasDigit(get(nextTransaction, headers[h]))

nextRowHasOtherData(nextTransaction, headers) ==
  \E h \in 1..Len(headers) :
    headers[h] # dateHeaderOf(headers) /\ Len(trim(get(nextTransaction, headers[h]))) > 0

\* the two breaks on a row that looks like a new transaction
breaksAt(nextTransaction, headers) ==
  \/ hasDate(nextTransaction, headers) /\ nextHasAmount(nextTransaction, headers)
  \/ hasDate(nextTransaction, headers) /\ nextRowHasOtherData(nextTransaction, headers)

\* transaction[header] after the forEach step for header
continuedValue(header, value, continuation, dateHeader) ==
  IF Len(trim(continuation)) > 0 /\ (~isValidDate(continuation) \/ header # dateHeader)
    THEN IF Len(trim(value)) > 0 THEN trim(value) \o " " \o trim(continuation)
         ELSE trim(continuation)
    ELSE value

RECURSIVE continueFrom(_, _, _, _)
continueFrom(transaction, continuationData, headers, h) ==
  IF h > Len(headers) THEN transaction
  ELSE continueFrom(putIfChanged(transaction, headers[h],
                                 continuedValue(headers[h], get(transaction, headers[h]),
                                                get(continuationData, headers[h]),
                                                dateHeaderOf(headers))),
                    continuationData, headers, h + 1)

maxContinuations_index == 15

\* the inner loop of groupMultiLineTransactions from row j (1-based) on: the
\* merged transaction and the index of the first row not absorbed
RECURSIVE absorbContinuations_index(_, _, _, _, _, _)
absorbContinuations_index(pageRows, j, continuationCount, transaction, columnRanges, headers) ==
  IF j > Len(pageRows) \/ continuationCount >= maxContinuations_index
    THEN [transaction |-> transaction, next |-> j]
  ELSE IF isFooterRow_index(pageRows[j]) \/ isHeaderRow_index(pageRows[j])
    THEN [transaction |-> transaction, next |-> j]
  ELSE IF breaksAt(mapRowToColumns_index(pageRows[j], columnRanges, headers), headers)
    THEN [transaction |-> transaction, next |-> j]
  ELSE absorbContinuations_index(
         pageRows, j + 1, continuationCount + 1,
         continueFrom(transaction, mapRowToColumns_index(pageRows[j], columnRanges, headers),
                      headers, 1),
         columnRanges, headers)

\* Object.values(transaction).join(' ').toLowerCase()
transactionText(transaction) == toLowerCase(join(valuesOf(transaction), " "))

isHeaderTransaction(transaction) ==
  includedCount(transactionText(transaction),
                << "date", "description", "particulars", "debit", "credit",
                   "withdrawal", "deposit", "balance" >>) >= 3

isFooterTransaction(transaction) ==
  includesAny(transactionText(transaction),
              << "end of statement", "closing balance", "total", "page",
                 "thank you", "regards", "signature", "generated",
                 "terms and conditions", "continued", "opening balance" >>)

\* hasValidTransactionData looks for the date under a label with "date" or "dt"
hasValidDate(transaction, headers) ==
  \E h \in 1..Len(headers) :
    /\ includes(toLowerCase(headers[h]), "date") \/ toLowerCase(headers[h]) = "dt"
    /\ \A g \in 1..(h - 1) :
         ~(includes(toLowerCase(headers[g]), "date") \/ toLowerCase(headers[g]) = "dt")
    /\ isValidDate(get(transaction, headers[h]))

matchesInvalidPattern_index(text) ==
  \/ includesSpaced(text, "statement", {"from", "period", "to", "date"})
  \/ includesSpaced(text, "account", {"summary", "number"})
  \/ includesSpaced(text, "customer", {"id", "name"})
  \/ includesSpaced(text, "branch", {"code", "name"})
  \/ includesSpaced(text, "ifsc", {"code"})
  \/ includesSpaced(text, "opening", {"balance"})
  \/ includesSpaced(text, "closing", {"balance"})

hasValidTransactionData(transaction, headers) ==
  IF Len(nonEmptyValues(transaction)) < 1 THEN FALSE
  ELSE IF ~hasValidDate(transaction, headers) /\ ~hasAmount(transaction, headers) THEN FALSE
  ELSE ~matchesInvalidPattern_index(transactionText(transaction))

\* the transactions of the first page that are kept: the loop breaks at a
\* footer transaction
RECURSIVE keptOnFirstPage(_, _)
keptOnFirstPage(groupedTransactions, headers) ==
  IF Len(groupedTransactions) = 0 THEN << >>
  ELSE IF isFooterTransaction(groupedTransactions[1]) THEN << >>
  ELSE (IF hasValidTransactionData(groupedTransactions[1], headers)
          THEN << groupedTransactions[1] >> ELSE << >>)
       \o keptOnFirstPage(Tail(groupedTransactions), headers)

\* the transactions of a later page that are kept
keptOnLaterPage(groupedTransactions, headers) ==
  keepIndices(groupedTransactions,
              {k \in 1..Len(groupedTransactions) :
                 /\ ~isHeaderTransaction(groupedTransactions[k])
                 /\ ~isFooterTransaction(groupedTransactions[k])
                 /\ hasValidTransactionData(groupedTransactions[k], headers)})


(***************************************************************************)
(* parseAllPages of the ColumnRange pipeline (process-pdf/index.ts)        *)
(***************************************************************************)
\* headers and columnRanges are set from the first header row found while
\* headers is empty
establishes(headerIndex) == headerIndex > 0 /\ Len(globalHeaders) = 0

headersAfter(pageRows, headerIndex) ==
  IF establishes(headerIndex)
    THEN [k \in 1..Len(pageRows[headerIndex]) |-> pageRows[headerIndex][k].text]
    ELSE globalHeaders

rangesAfter(pageRows, headerIndex) ==
  IF establishes(headerIndex)
    THEN calculateColumnRanges(pageRows[headerIndex], headersAfter(pageRows, headerIndex),
                               pageRows, headerIndex)
    ELSE globalColumns

\* the rows handed to groupMultiLineTransactions: those below the header on
\* the first page, all rows on a later page, none when the page is not parsed
groupedRows(pageRows, headerIndex, columnRanges) ==
  IF pageIndex = 0 /\ headerIndex > 0 /\ Len(columnRanges) > 0
    THEN SubSeq(pageRows, headerIndex + 1, Len(pageRows))
  ELSE IF pageIndex > 0 /\ Len(columnRanges) > 0 THEN pageRows
  ELSE << >>

enterPage_index(pageRows, headerIndex) ==
  /\ globalHeaders' = headersAfter(pageRows, headerIndex)
  /\ globalColumns' = rangesAfter(pageRows, headerIndex)
  /\ rows' = groupedRows(pageRows, headerIndex, rangesAfter(pageRows, headerIndex))
  /\ pageLog' = Append(pageLog, [pageIndex |-> pageIndex,
                                 rows |-> pageRows,
                                 detected |-> establishes(headerIndex),
                                 headersBefore |-> globalHeaders,
                                 headers |-> headersAfter(pageRows, headerIndex),
                                 columns |-> rangesAfter(pageRows, headerIndex),
                                 columnTypes |-> {}])

searchHeader(pageRows) == enterPage_index(pageRows, firstHeaderRow(pageRows))

\* groupItemsIntoRows, the search of the header row, and the entry of
\* groupMultiLineTransactions
StartPage_index ==
  /\ pc = "page"
  /\ pageIndex < Len(allPagesData)
  /\ Len(allPagesData[pageIndex + 1]) > 0
  /\ searchHeader(groupItemsIntoRows_index(allPagesData[pageIndex + 1]))
  /\ i' = 0
  /\ transactions' = << >>
  /\ rowLog' = << >>
  /\ candidates' = << >>
  /\ pc' = "rows"
  /\ UNCHANGED << inputVars, pageIndex, columnTypes, pages, seenTransactions, result,
                  extracted, allTransactions >>

inGroupLoop == pc = "rows" /\ i < Len(rows)

\* if (isFooterRow(row) || row.length === 0) { i++; continue; }
SkipRow_index ==
  /\ inGroupLoop
  /\ isFooterRow_index(rows[i + 1]) \/ Len(rows[i + 1]) = 0
  /\ i' = i + 1
  /\ rowLog' = Append(rowLog, [row |-> i, role |-> "skipped", candidate |-> 0])
  /\ UNCHANGED << inputVars, documentVars, pageIndex, rows, transactions, pc, result, candidates >>

startsTransaction(transaction) ==
  hasDate(transaction, globalHeaders) \/ hasAmount(transaction, globalHeaders)

\* if (!hasDate && !hasAmount) { i++; continue; }
NoDateNoAmount ==
  /\ inGroupLoop
  /\ ~(isFooterRow_index(rows[i + 1]) \/ Len(rows[i + 1]) = 0)
  /\ ~startsTransaction(mapRowToColumns_index(rows[i + 1], globalColumns, globalHeaders))
  /\ i' = i + 1
  /\ rowLog' = Append(rowLog, [row |-> i, role |-> "nodata", candidate |-> 0])
  /\ UNCHANGED << inputVars, documentVars, pageIndex, rows, transactions, pc, result, candidates >>

pushGrouped(transaction, absorbed) ==
  pushAssembled(transaction, absorbed.transaction, absorbed.next, TRUE)

groupFrom(transaction) ==
  /\ startsTransaction(transaction)
  /\ pushGrouped(transaction,
                 absorbContinuations_index(rows, i + 2, 0, transaction, globalColumns,
                                           globalHeaders))

\* the continuation rows are merged, the transaction is pushed, and i moves on
GroupTransaction ==
  /\ inGroupLoop
  /\ ~(isFooterRow_index(rows[i + 1]) \/ Len(rows[i + 1]) = 0)
  /\ groupFrom(mapRowToColumns_index(rows[i + 1], globalColumns, globalHeaders))
  /\ UNCHANGED << inputVars, documentVars, pageIndex, rows, pc, result >>

\* allTransactions.push, pageTransactions.push and pages.push
pushKept(pageTransactions) ==
  /\ allTransactions' = allTransactions \o pageTransactions
  /\ pages' = IF Len(pageTransactions) > 0
                THEN Append(pages, [pageNumber |-> pageIndex + 1,
                                    transactions |-> pageTransactions])
                ELSE pages

\* the return of groupMultiLineTransactions and the loop that keeps the valid
\* transactions
EndPage_index ==
  /\ pc = "rows"
  /\ i >= Len(rows)
  /\ pushKept(IF pageIndex = 0 THEN keptOnFirstPage(transactions, globalHeaders)
              ELSE keptOnLaterPage(transactions, globalHeaders))
  /\ extracted' = Append(extracted, [pageIndex |-> pageIndex, transactions |-> transactions])
  /\ pageIndex' = pageIndex + 1
  /\ pc' = "page"
  /\ UNCHANGED << inputVars, globalHeaders, globalColumns, columnTypes, seenTransactions,
                  rows, i, transactions, result, pageLog, rowLog, candidates >>

Return_index ==
  /\ pc = "page"
  /\ pageIndex >= Len(allPagesData)
  /\ result' = [returned |-> TRUE, transactions |-> allTransactions,
                headers |-> globalHeaders, pages |-> pages]
  /\ pc' = "done"
  /\ UNCHANGED << inputVars, pageIndex, globalHeaders, globalColumns, columnTypes, pages,
                  seenTransactions, rows, i, transactions, pageLog, rowLog, candidates,
                  extracted, allTransactions >>

Next_index ==
  \/ SkipEmptyPage
  \/ StartPage_index
  \/ SkipRow_index
  \/ NoDateNoAmount
  \/ GroupTransaction
  \/ EndPage_index
  \/ Return_index

(***************************************************************************)
(* Input documents of the ColumnRange pipeline                             *)
(***************************************************************************)
\* a second line of a transaction that repeats the running balance
balanceLineRow == << fragment("UPI", 80, 20), fragment("14,500.00", 380, 45) >>

referenceTextRow == << fragment("Ref123", 0, 30) >>

\* a line that holds a running balance only
balanceOnlyRow == << fragment("14,500.00", 380, 45) >>

\* a transaction whose narration begins left of the label of its column
wideNarrationRow ==
  << fragment("03/02/2024", 0, 50), fragment("NEFT Transfer", 60, 90),
     fragment("500.00", 220, 30), fragment("14,000.00", 380, 45) >>

dataRowPool_index ==
  { salaryRow, atmRow, balanceLineRow, transferTextRow, referenceTextRow, closingBalanceRow,
    balanceOnlyRow, wideNarrationRow }

statementPages_index ==
  { << pageOf(<< standardHeader >> \o body) >> : body \in sequencesUpTo(dataRowPool_index, MaxRows) }

documentPagePool_index ==
  { << >>, pageOf(<< standardHeader, salaryRow >>), pageOf(<< salaryRow, transferTextRow >>),
    pageOf(<< atmRow >>) }

multiPageDocuments_index == sequencesUpTo(documentPagePool_index, MaxPages)

\* a fragment on a baseline of its own
placed(text, x, y) == [text |-> text, x |-> x, y |-> y, width |-> 30, height |-> 10]

\* pages whose amount is printed on the baseline of its row, and 1 below it
baselinePages_index ==
  { << placed("Date", 0, 100), placed("Details", 80, 100), placed("Amount", 380, 100),
       placed("01/02/2024", 0, 84), placed("Salary", 80, 84), placed("5,000.00", 380, 83) >>,
    << placed("Date", 0, 100), placed("Details", 80, 100), placed("Amount", 380, 100),
       placed("01/02/2024", 0, 84), placed("Salary", 80, 84), placed("5,000.00", 380, 84),
       placed("02/02/2024", 0, 70), placed("ATM", 80, 70), placed("500.00", 380, 69) >>,
    << placed("Date", 0, 12), placed("Details", 80, 12), placed("Amount", 380, 12),
       placed("01/02/2024", 0, 8), placed("Salary", 80, 8), placed("5,000.00", 380, 7) >> }

baselineDocuments_index == { << page >> : page \in baselinePages_index }

Init_index ==
  \/ \E document \in statementPages_index : InitState(document)
  \/ \E document \in multiPageDocuments_index : InitState(document)
  \/ \E document \in baselineDocuments_index : InitState(document)

SpecProcessPdf == Init_index /\ [][Next_index]_vars

(***************************************************************************)
(* Properties of the ColumnRange pipeline (process-pdf/index.ts)           *)
(***************************************************************************)
\* C6: merging continuation rows never changes the value of a date or
\* amount column that was already non-empty in the start row of the
\* transaction.
C6_DateAndAmountsKept ==
  \A c \in Range(candidates) :
    \A h \in 1..Len(globalHeaders) :
      (/\ globalHeaders[h] = dateHeaderOf(globalHeaders) \/ isAmountHeader(globalHeaders[h])
       /\ get(c.initial, globalHeaders[h]) # "")
      => get(c.merged, globalHeaders[h]) = get(c.initial, globalHeaders[h])

\* C18: every transaction parseAllPages appends to its output has at least
\* two non-empty fields, matches none of the boilerplate patterns, and has
\* a date-column value accepted by isValidDate or an amount column holding
\* an amount-shaped value.
C18_AppendedTransactionsValid ==
  \A t \in Range(allTransactions) :
    /\ Len(nonEmptyValues(t)) >= 2
    /\ ~matchesInvalidPattern_index(transactionText(t))
    /\ \/ hasValidDate(t, globalHeaders)
       \/ \E h \in 1..Len(globalHeaders) :
            isAmountHeader(globalHeaders[h]) /\ hasDigit(get(t, globalHeaders[h]))

\* the transactions grouped on a page that are grouped again, identically,
\* from the first row of the page after it
reemittedOnNextPage ==
  { t \in UNION { Range(extracted[k].transactions) : k \in 1..Len(extracted) } :
      \E k \in 1..Len(extracted) : \E n \in 1..Len(extracted) :
        /\ extracted[n].pageIndex = extracted[k].pageIndex + 1
        /\ t \in Range(extracted[k].transactions)
        /\ Len(extracted[n].transactions) > 0
        /\ extracted[n].transactions[1] = t }

\* C19: a transaction that is re-emitted identically as the first row of
\* the following page appears exactly once in the transactions parseAllPages
\* returns.
C19_RepeatedRowReturnedOnce ==
  result.returned =>
    \A t \in reemittedOnNextPage :
      Cardinality({k \in 1..Len(result.transactions) : result.transactions[k] = t}) = 1

\* the fragment is in the range of a column and its text is in the value
\* mapRowToColumns gives that column
fragmentMapped(item, row) ==
  /\ bestMatch(item.x, globalColumns) # 0
  /\ includes(get(mapRowToColumns_index(row, globalColumns, globalHeaders),
                  globalColumns[bestMatch(item.x, globalColumns)].header),
              item.text)

\* C20: with the ranges built by calculateColumnRanges, every fragment of a
\* data row with x >= 0 lies in the [minX, maxX) of at least one column and
\* is assigned to one column, so no fragment's text is missing from the
\* transaction mapRowToColumns returns.
C20_EveryFragmentMapped ==
  pc = "rows" =>
    \A r \in 1..Len(rows) :
      \A k \in 1..Len(rows[r]) :
        rows[r][k].x >= 0 => fragmentMapped(rows[r][k], rows[r])

(***************************************************************************)
(* Request handler of the columnTypes pipeline (part_007, Deno.serve)      *)
(***************************************************************************)
\* the request being served
request == Head(requests)

\* the pageItems extractBankStatementData makes of the text content of a
\* page: items without text are dropped, the text is trimmed (coordinates
\* are whole units, on which the rounding to two decimals is exact)
pageItemsOf(items) ==
  LET kept == keepIndices(items, {k \in 1..Len(items) : Len(trim(items[k].str)) > 0})
  IN [k \in 1..Len(kept) |->
        [text |-> trim(kept[k].str), y |-> kept[k].y, x |-> kept[k].x,
         height |-> kept[k].height, width |-> kept[k].width]]

respond(status, body) ==
  /\ response' = [sent |-> TRUE, status |-> status, body |-> body]
  /\ pc' = "responded"

\* if (req.method === "OPTIONS") return new Response(null, { status: 200 })
Options ==
  /\ pc = "request"
  /\ request.method = "OPTIONS"
  /\ respond(200, [null |-> TRUE])
  /\ UNCHANGED << allPagesData, requests, served, documentVars, pageIndex, rows, i,
                  transactions, result, rowLog, candidates >>

\* if (!file) return new Response(... "No file provided" ..., { status: 400 })
NoFileProvided ==
  /\ pc = "request"
  /\ request.method # "OPTIONS"
  /\ ~request.file
  /\ respond(400, [error |-> "No file provided", success |-> FALSE, data |-> << >>])
  /\ UNCHANGED << allPagesData, requests, served, documentVars, pageIndex, rows, i,
                  transactions, result, rowLog, candidates >>

\* the file is read and extractBankStatementData opens the document
ReceiveFile ==
  /\ pc = "request"
  /\ request.method # "OPTIONS"
  /\ request.file
  /\ pc' = "extract"
  /\ UNCHANGED << inputVars, documentVars, pageIndex, rows, i, transactions, result, rowLog,
                  candidates >>

\* the extraction of request.failsAfter pages succeeds before the text-layer
\* library throws
extractionThrows ==
  request.fails /\ request.failsAfter = Len(allPagesData)

\* one turn of the loop over pageNum: allPagesData.push(pageItems)
ExtractPage ==
  /\ pc = "extract"
  /\ ~extractionThrows
  /\ Len(allPagesData) < Len(request.pdf)
  /\ allPagesData' = Append(allPagesData, pageItemsOf(request.pdf[Len(allPagesData) + 1]))
  /\ UNCHANGED << serveVars, documentVars, pageIndex, rows, i, transactions, pc, result,
                  rowLog, candidates >>

\* catch (error) { throw new Error('Failed to extract data from PDF') } and
\* the catch of the handler
ExtractionFails ==
  /\ pc = "extract"
  /\ extractionThrows
  /\ respond(500, [success |-> FALSE, error |-> "Failed to extract data from PDF",
                   data |-> << >>, headers |-> << >>])
  /\ UNCHANGED << allPagesData, requests, served, documentVars, pageIndex, rows, i,
                  transactions, result, rowLog, candidates >>

\* processAllPages without a Set of its own: the keys seen by the call
\* before stay
declaresKeepingSeen ==
  /\ globalHeaders' = << >>
  /\ globalColumns' = << >>
  /\ columnTypes' = {}
  /\ pages' = << >>
  /\ seenTransactions' = seenTransactions
  /\ pageIndex' = 0

\* the declarations at the head of processAllPages
declaresLocals ==
  /\ globalHeaders' = << >>
  /\ globalColumns' = << >>
  /\ columnTypes' = {}
  /\ pages' = << >>
  /\ seenTransactions' = {}
  /\ pageIndex' = 0

\* return processAllPages(allPagesData)
CallProcessAllPages ==
  /\ pc = "extract"
  /\ ~extractionThrows
  /\ Len(allPagesData) = Len(request.pdf)
  /\ declaresLocals
  /\ pc' = "page"
  /\ UNCHANGED << inputVars, rows, i, transactions, result, pageLog, rowLog, candidates,
                  extracted, allTransactions >>

\* Respond with the success flag of a parse that found transactions
RespondSuccess ==
  /\ pc = "done"
  /\ Len(requests) > 0
  /\ respond(200, [success |-> TRUE,
                   data |-> result.transactions,
                   pages |-> result.pages,
                   headers |-> result.headers,
                   columnTypes |-> result.columnTypes,
                   filename |-> request.name])
  /\ UNCHANGED << allPagesData, requests, served, documentVars, pageIndex, rows, i,
                  transactions, result, rowLog, candidates >>

\* the response to a parse that completed
Respond ==
  /\ pc = "done"
  /\ Len(requests) > 0
  /\ respond(200, [success |-> Len(result.transactions) > 0,
                   data |-> result.transactions,
                   pages |-> result.pages,
                   headers |-> result.headers,
                   columnTypes |-> result.columnTypes,
                   filename |-> request.name])
  /\ UNCHANGED << allPagesData, requests, served, documentVars, pageIndex, rows, i,
                  transactions, result, rowLog, candidates >>

\* what is kept of a request once it is answered
answer ==
  [request |-> request, response |-> response, result |-> result, pageLog |-> pageLog,
   extracted |-> extracted]

\* Deno.serve calls the handler for the next request; nothing of the call
\* before is left but what processAllPages declares anew
NextRequest ==
  /\ pc = "responded"
  /\ Len(requests) > 1
  /\ served' = Append(served, answer)
  /\ requests' = Tail(requests)
  /\ response' = [sent |-> FALSE]
  /\ allPagesData' = << >>
  /\ rows' = << >>
  /\ i' = 0
  /\ transactions' = << >>
  /\ result' = [returned |-> FALSE]
  /\ pageLog' = << >>
  /\ rowLog' = << >>
  /\ candidates' = << >>
  /\ extracted' = << >>
  /\ allTransactions' = << >>
  /\ pc' = "request"
  /\ UNCHANGED << globalHeaders, globalColumns, columnTypes, pages, seenTransactions, pageIndex >>

Next_serve ==
  \/ Options
  \/ NoFileProvided
  \/ ReceiveFile
  \/ ExtractPage
  \/ ExtractionFails
  \/ CallProcessAllPages
  \/ SkipEmptyPage
  \/ StartPage
  \/ SkipRow
  \/ RowWithoutMinimumData
  \/ AssembleTransaction
  \/ EndPage
  \/ Return
  \/ Respond
  \/ NextRequest


(***************************************************************************)
(* Properties of the columnTypes pipeline: empty pages                     *)
(***************************************************************************)
atEmptyPage ==
  /\ pc = "page"
  /\ pageIndex < Len(allPagesData)
  /\ Len(allPagesData[pageIndex + 1]) = 0

\* the step processAllPages takes at an empty page
emptyPageSkipped ==
  atEmptyPage =>
    /\ pageIndex' = pageIndex + 1
    /\ pc' = "page"
    /\ UNCHANGED << globalHeaders, globalColumns, columnTypes, seenTransactions, pages,
                    pageLog, extracted, result >>

\* nothing is recorded for an empty page
emptyPagesLeaveNothing ==
  \A p \in 1..Len(allPagesData) :
    Len(allPagesData[p]) = 0 =>
      /\ Len(groupItemsIntoRows(allPagesData[p])) = 0
      /\ \A k \in 1..Len(pages) : pages[k].pageNumber # p
      /\ \A k \in 1..Len(pageLog) : pageLog[k].pageIndex + 1 # p
      /\ \A k \in 1..Len(extracted) : extracted[k].pageIndex + 1 # p
      /\ result.returned => \A k \in 1..Len(result.pages) : result.pages[k].pageNumber # p

\* C13: a page with zero fragments yields zero rows and zero transactions;
\* processAllPages skips it, leaves the headers, the columns and the
\* seen-key set unchanged, adds no pages entry for it, and goes on to the
\* next page.
C13_EmptyPageSkipped == [][emptyPageSkipped]_vars /\ []emptyPagesLeaveNothing

C13_Witness ==
  /\ pc = "page"
  /\ pageIndex >= 2
  /\ pageIndex < Len(allPagesData)
  /\ Len(allPagesData[pageIndex]) = 0
  /\ Len(globalHeaders) > 0
  /\ seenTransactions # {}
  /\ Len(pages) > 0


(***************************************************************************)
(* Requests                                                                *)
(***************************************************************************)
\* the items of the text content of a page whose fragments are given
textContentOf(page) ==
  [k \in 1..Len(page) |->
     [str |-> page[k].text, x |-> page[k].x, y |-> page[k].y, width |-> page[k].width,
      height |-> page[k].height]]

\* the same content with blanks around each text and an item of blanks in
\* front
paddedContentOf(page) ==
  << [str |-> "  ", x |-> 0, y |-> 0, width |-> 0, height |-> 10] >>
    \o [k \in 1..Len(page) |->
          [str |-> " " \o page[k].text \o " ", x |-> page[k].x, y |-> page[k].y,
           width |-> page[k].width, height |-> page[k].height]]

pdfOf(document) == [p \in 1..Len(document) |-> textContentOf(document[p])]

paddedPdfOf(document) == [p \in 1..Len(document) |-> paddedContentOf(document[p])]

post(pdf) ==
  [method |-> "POST", file |-> TRUE, name |-> "statement.pdf", pdf |-> pdf,
   fails |-> FALSE, failsAfter |-> 0]

\* a request whose document cannot be read after the given number of pages
unreadable(pdf, readablePages) ==
  [method |-> "POST", file |-> TRUE, name |-> "statement.pdf", pdf |-> pdf,
   fails |-> TRUE, failsAfter |-> readablePages]

preflight ==
  [method |-> "OPTIONS", file |-> FALSE, name |-> "", pdf |-> << >>,
   fails |-> FALSE, failsAfter |-> 0]

withoutFile ==
  [method |-> "POST", file |-> FALSE, name |-> "", pdf |-> << >>,
   fails |-> FALSE, failsAfter |-> 0]

twoPageStatement == << pageOf(<< standardHeader, salaryRow >>), pageOf(<< salaryRow, atmRow >>) >>

\* documents with and without header row, columns, pages and fragments
servedDocuments ==
  { twoPageStatement,
    << pageOf(<< standardHeader, salaryRow >>) >>,
    << pageOf(<< standardHeader, atmRow >>), pageOf(<< standardHeader >>) >>,
    << pageOf(<< standardHeader, repeatedTextRow, atmRow >>) >>,
    << pageOf(<< salaryRow, atmRow >>) >>,
    << pageOf(<< repeatedTextRow >>) >>,
    << pageOf(<< repeatedTextRow, balanceTextRow >>), << >> >>,
    << << >> >>,
    << >> }

\* a page of a header row and a transaction row, and one whose transaction
\* row holds two fragments printed at the same place
plainPage ==
  pageOf(<< << fragment("Date", 0, 40), fragment("Balance", 380, 40) >>,
            << fragment("01/02/2024", 0, 50), fragment("15,000.00", 380, 45) >> >>)

overprintedRow ==
  << fragment("01/02/2024", 0, 50), fragment("Salary", 80, 30), fragment("Bonus", 80, 30) >>

overprintedPage ==
  pageOf(<< << fragment("Date", 0, 40), fragment("Narration", 80, 60) >>, overprintedRow >>)

permutedPages == { plainPage, overprintedPage }

\* the fragment lists that hold the fragments of page in any order
permutationsOf(page) ==
  { [k \in 1..Len(page) |-> page[f[k]]] : f \in Permutations(1..Len(page)) }

\* header rows over the labels of bank statements
labelHeaders ==
  { << fragment("Date", 0, 40), fragment("Description", 80, 60), fragment("Debit", 220, 50),
       fragment("Credit", 300, 40), fragment("Balance", 380, 40) >>,
    << fragment("Txn Date", 0, 40), fragment("Particulars", 80, 60),
       fragment("Withdrawal", 220, 50), fragment("Deposit", 300, 40),
       fragment("Amount", 380, 40) >>,
    << fragment("Value Date", 0, 40), fragment("Narration", 80, 60), fragment("Dr", 220, 50),
       fragment("Cr", 300, 40), fragment("Balance", 380, 40) >>,
    << fragment("Date", 0, 40), fragment("Details", 80, 60), fragment("Address", 220, 50),
       fragment("Reference", 300, 40), fragment("Cheque No", 380, 40) >> }

InitRequests(queue) ==
  /\ requests = queue
  /\ response = [sent |-> FALSE]
  /\ served = << >>
  /\ allPagesData = << >>
  /\ pageIndex = 0
  /\ globalHeaders = << >>
  /\ globalColumns = << >>
  /\ columnTypes = {}
  /\ pages = << >>
  /\ seenTransactions = {}
  /\ rows = << >>
  /\ i = 0
  /\ transactions = << >>
  /\ pc = "request"
  /\ result = [returned |-> FALSE]
  /\ pageLog = << >>
  /\ rowLog = << >>
  /\ candidates = << >>
  /\ extracted = << >>
  /\ allTransactions = << >>

Init_serve ==
  \/ \E a \in servedDocuments, b \in servedDocuments :
       InitRequests(<< post(pdfOf(a)), post(pdfOf(b)) >>)
  \/ \E page \in permutedPages : \E permuted \in permutationsOf(page) :
       InitRequests(<< post(pdfOf(<< page >>)), post(pdfOf(<< permuted >>)) >>)
  \/ \E header \in labelHeaders :
       InitRequests(<< post(pdfOf(<< pageOf(<< header, salaryRow >>) >>)) >>)
  \/ \E first \in { preflight, withoutFile, unreadable(pdfOf(twoPageStatement), 0),
                    unreadable(pdfOf(twoPageStatement), 1),
                    post(paddedPdfOf(twoPageStatement)) } :
       InitRequests(<< first, post(pdfOf(twoPageStatement)) >>)

SpecServe == Init_serve /\ [][Next_serve]_vars

\* the requests answered so far with what was kept of each
answered == IF pc = "responded" THEN Append(served, answer) ELSE served


(***************************************************************************)
(* Properties of the request handler of the columnTypes pipeline           *)
(***************************************************************************)
\* the number of places of seq that hold e
occurrences(seq, e) == Cardinality({k \in 1..Len(seq) : seq[k] = e})

\* q holds the elements of p in some order
isPermutationOf(p, q) ==
  /\ Len(p) = Len(q)
  /\ \A e \in Range(p) \cup Range(q) : occurrences(p, e) = occurrences(q, e)

\* the documents of two requests have the same pages up to the order of the
\* fragments inside each page
samePagesPermuted(a, b) ==
  /\ Len(a.request.pdf) = Len(b.request.pdf)
  /\ \A p \in 1..Len(a.request.pdf) : isPermutationOf(a.request.pdf[p], b.request.pdf[p])

\* the rows groupItemsIntoRows returned for the pages of an answered request
rowsOf(a) == [k \in 1..Len(a.pageLog) |-> a.pageLog[k].rows]

\* C11: applying any permutation to the fragment list of a page before
\* groupItemsIntoRows yields the same rows (same fragments per row, same
\* order inside each row) and the same transactions from processAllPages.
C11_RowsIgnoreFragmentOrder ==
  \A m \in 1..Len(answered) : \A n \in 1..Len(answered) :
    LET a == answered[m]
        b == answered[n]
    IN (a.result.returned /\ b.result.returned /\ samePagesPermuted(a, b)) =>
         /\ rowsOf(a) = rowsOf(b)
         /\ a.result.transactions = b.result.transactions


\* two calls on the same pages return the same result
sameDocumentSameResult ==
  \A m \in 1..Len(answered) : \A n \in 1..Len(answered) :
    (/\ answered[m].result.returned
     /\ answered[n].result.returned
     /\ answered[m].request.pdf = answered[n].request.pdf)
      => answered[m].result = answered[n].result

\* every transaction extracted from a page during a call has a transaction
\* of the same key in the result of that call
ownTransactionsKept ==
  \A n \in 1..Len(answered) :
    answered[n].result.returned =>
      \A k \in 1..Len(answered[n].extracted) :
        \A t \in Range(answered[n].extracted[k].transactions) :
          \E u \in Range(answered[n].result.transactions) :
            createTransactionKey(u) = createTransactionKey(t)

\* C12: the result of processAllPages depends only on its argument: two
\* calls on the same pages return identical, identically ordered
\* transactions, and a call before never removes a transaction from the
\* result of a later call (the seen-key set does not survive a call).
C12_ResultDependsOnArgument == sameDocumentSameResult /\ ownTransactionsKept

C12_Witness ==
  /\ Len(answered) = 2
  /\ answered[1].result.returned
  /\ answered[2].result.returned
  /\ answered[1].request.pdf # answered[2].request.pdf
  /\ Len(answered[2].result.transactions) >= 2
  /\ \E t \in Range(answered[1].result.transactions) :
       t \in Range(answered[2].result.transactions)


\* no page of the call gave a header row or columns from the data rows
noStructureFound(a) ==
  \A k \in 1..Len(a.pageLog) :
    /\ headerRowIndex(a.pageLog[k].rows) = 0
    /\ Len(detectColumnsFromDataPatterns(a.pageLog[k].rows).columns) = 0

\* the answers to the requests that carried a document
documentAnswers == {n \in 1..Len(answered) : answered[n].request.method # "OPTIONS"}

\* C14: if no page yields a header row scoring at least 3 and the
\* data-driven fallback yields no columns, processAllPages returns an empty
\* transaction list and the response has success = false; for every
\* document the success flag of the response is true exactly when data is
\* non-empty.
C14_SuccessIffData ==
  \A n \in documentAnswers :
    LET a == answered[n] IN
    /\ (a.request.file /\ ~a.request.fails /\ noStructureFound(a)) =>
         /\ a.result.returned
         /\ a.result.transactions = << >>
         /\ a.response.status = 200
         /\ ~a.response.body.success
    /\ a.response.body.success <=> Len(a.response.body.data) > 0

C14_Witness ==
  \E n \in documentAnswers :
    /\ answered[n].result.returned
    /\ Len(answered[n].pageLog) > 0
    /\ noStructureFound(answered[n])
    /\ Len(answered[n].pageLog[1].rows) >= 2
    /\ ~answered[n].response.body.success


\* C15: when a parse completes with zero transactions, the response carries
\* success = false, an empty data list and an explanatory error message.
C15_EmptyParseExplained ==
  \A n \in documentAnswers :
    LET a == answered[n] IN
    (a.result.returned /\ Len(a.result.transactions) = 0) =>
      /\ ~a.response.body.success
      /\ a.response.body.data = << >>
      /\ "error" \in DOMAIN a.response.body
      /\ Len(a.response.body.error) > 0


\* the labels the claim on detectColumnType is about
headerLabels ==
  { "Date", "Txn Date", "Value Date", "Description", "Particulars", "Narration", "Details",
    "Address", "Reference", "Cheque No", "Debit", "Credit", "Withdrawal", "Deposit",
    "Balance", "Amount", "Dr", "Cr" }

descriptionLabels == { "Description", "Particulars", "Narration", "Details" }

matchesDateKeyword(lower) ==
  includes(lower, "date") \/ includes(lower, "dt")

matchesAmountKeyword(lower) ==
  \E keyword \in { "debit", "credit", "withdrawal", "deposit", "balance", "amount", "dr", "cr" } :
    includes(lower, keyword)

\* the column types returned for the labels, by label
typedLabels ==
  UNION { answered[n].result.columnTypes :
            n \in {m \in 1..Len(answered) : answered[m].result.returned} }

\* C17: for every header label of the set, detectColumnType returns 'date'
\* if the label matches a date keyword, otherwise 'amount' if it matches one
\* of debit, credit, withdrawal, deposit, balance, amount, dr, cr, otherwise
\* 'text'; in particular the description-like labels get 'text'.
C17_LabelTypes ==
  \A typed \in typedLabels :
    typed[1] \in headerLabels =>
      /\ typed[2] = IF matchesDateKeyword(toLowerCase(typed[1])) THEN "date"
                    ELSE IF matchesAmountKeyword(toLowerCase(typed[1])) THEN "amount"
                    ELSE "text"
      /\ typed[1] \in descriptionLabels => typed[2] = "text"


(***************************************************************************)
(* Request handler of the ColumnRange pipeline (process-pdf/index.ts)      *)
(***************************************************************************)
\* the pageItems extractAllPages makes of the text content of a page
pageItemsOf_index(items) ==
  LET kept == keepIndices(items, {k \in 1..Len(items) : Len(trim(items[k].str)) > 0})
  IN [k \in 1..Len(kept) |->
        [text |-> trim(kept[k].str), y |-> kept[k].y, x |-> kept[k].x,
         width |-> kept[k].width]]

NoFileProvided_index ==
  /\ pc = "request"
  /\ request.method # "OPTIONS"
  /\ ~request.file
  /\ respond(400, [error |-> "No file provided", success |-> FALSE, data |-> << >>,
                   pages |-> << >>, headers |-> << >>])
  /\ UNCHANGED << allPagesData, requests, served, documentVars, pageIndex, rows, i,
                  transactions, result, rowLog, candidates >>

\* one turn of the loop over pageNum: allPages.push(pageItems)
ExtractPage_index ==
  /\ pc = "extract"
  /\ ~extractionThrows
  /\ Len(allPagesData) < Len(request.pdf)
  /\ allPagesData' = Append(allPagesData, pageItemsOf_index(request.pdf[Len(allPagesData) + 1]))
  /\ UNCHANGED << serveVars, documentVars, pageIndex, rows, i, transactions, pc, result,
                  rowLog, candidates >>

\* the declarations at the head of parseAllPages
declaresLocals_index ==
  /\ allTransactions' = << >>
  /\ pages' = << >>
  /\ globalHeaders' = << >>
  /\ globalColumns' = << >>
  /\ pageIndex' = 0

\* ExtractionFails_index handing the pages extracted so far to parseAllPages
ExtractionFailsParsesRest ==
  /\ pc = "extract"
  /\ extractionThrows
  /\ declaresLocals_index
  /\ pc' = "page"
  /\ UNCHANGED << inputVars, columnTypes, seenTransactions, rows, i, transactions, result,
                  pageLog, rowLog, candidates, extracted >>

\* catch (error) { throw new Error('Failed to extract text from PDF') } and
\* the catch of the handler
ExtractionFails_index ==
  /\ pc = "extract"
  /\ extractionThrows
  /\ respond(500, [success |-> FALSE, error |-> "Failed to extract text from PDF",
                   data |-> << >>, pages |-> << >>, headers |-> << >>])
  /\ UNCHANGED << allPagesData, requests, served, documentVars, pageIndex, rows, i,
                  transactions, result, rowLog, candidates >>

\* const { transactions, headers, pages } = parseAllPages(allPagesData)
CallParseAllPages ==
  /\ pc = "extract"
  /\ ~extractionThrows
  /\ Len(allPagesData) = Len(request.pdf)
  /\ declaresLocals_index
  /\ pc' = "page"
  /\ UNCHANGED << inputVars, columnTypes, seenTransactions, rows, i, transactions, result,
                  pageLog, rowLog, candidates, extracted >>

\* the response to a parse that completed
Respond_index ==
  /\ pc = "done"
  /\ Len(requests) > 0
  /\ respond(200, [success |-> Len(result.transactions) > 0,
                   data |-> result.transactions,
                   pages |-> result.pages,
                   headers |-> result.headers,
                   filename |-> request.name])
  /\ UNCHANGED << allPagesData, requests, served, documentVars, pageIndex, rows, i,
                  transactions, result, rowLog, candidates >>

Next_serveIndex ==
  \/ Options
  \/ NoFileProvided_index
  \/ ReceiveFile
  \/ ExtractPage_index
  \/ ExtractionFails_index
  \/ CallParseAllPages
  \/ SkipEmptyPage
  \/ StartPage_index
  \/ SkipRow_index
  \/ NoDateNoAmount
  \/ GroupTransaction
  \/ EndPage_index
  \/ Return_index
  \/ Respond_index
  \/ NextRequest

\* a document that cannot be read after any number of its pages, a readable
\* document, a request without document
Init_serveIndex ==
  \/ \E document \in multiPageDocuments_index : \E readablePages \in 0..Len(document) :
       /\ readablePages < Len(document) \/ Len(document) = 0
       /\ InitRequests(<< unreadable(pdfOf(document), readablePages) >>)
  \/ \E document \in multiPageDocuments_index : InitRequests(<< post(pdfOf(document)) >>)
  \/ \E first \in { preflight, withoutFile, unreadable(pdfOf(twoPageStatement), 1),
                    post(paddedPdfOf(twoPageStatement)) } :
       \E body \in dataRowPool_index :
         InitRequests(<< first, post(pdfOf(<< pageOf(<< standardHeader, body >>) >>)) >>)

SpecServeProcessPdf == Init_serveIndex /\ [][Next_serveIndex]_vars

(***************************************************************************)
(* Properties of the request handler of the ColumnRange pipeline           *)
(***************************************************************************)
\* while a request whose extraction fails is served, parseAllPages is not
\* entered
parseNotInvoked ==
  (Len(requests) > 0 /\ request.fails) =>
    /\ pc \in { "request", "extract", "responded" }
    /\ pageLog = << >>
    /\ ~result.returned

\* the answer to a request whose extraction failed
failureAnswered ==
  \A n \in 1..Len(answered) :
    answered[n].request.fails =>
      /\ answered[n].response.status = 500
      /\ answered[n].response.body =
           [success |-> FALSE, error |-> "Failed to extract text from PDF",
            data |-> << >>, pages |-> << >>, headers |-> << >>]
      /\ ~answered[n].result.returned

\* C16: if fragment extraction fails on any page, parseAllPages is never
\* invoked and the response is success = false with an error message and
\* empty data, pages and headers: transactions of the pages extracted
\* before the failure are never returned.
C16_FailedExtractionReturnsNothing == parseNotInvoked /\ failureAnswered

C16_Witness ==
  /\ pc = "responded"
  /\ request.fails
  /\ request.failsAfter = 2
  /\ Len(allPagesData) = 2
  /\ allPagesData[1] = pageItemsOf_index(textContentOf(pageOf(<< standardHeader, salaryRow >>)))
  /\ response.status = 500


(***************************************************************************)
(* deduplicationSet pipeline (part_005): rows, header, transactions        *)
(***************************************************************************)
\* the distinct y of the items sorted by descending y, in that order
yPositionsOf(items) == distinctInOrder([k \in 1..Len(sortByYDescending(items)) |->
                                          sortByYDescending(items)[k].y])

\* yPositions.find(y => Math.abs(y - roundedY) < 0.5), or none (coordinates
\* are whole units, on which the rounding to one decimal is exact)
closestY(yPositions, roundedY) ==
  LET near == {k \in 1..Len(yPositions) : 2 * distance(yPositions[k], roundedY) < 1}
  IN IF near = {} THEN << >>
     ELSE << yPositions[CHOOSE k \in near : \A m \in near : k <= m] >>

\* the rows of rowMap sorted by descending y, the items of each sorted by x
groupIntoRows(items) ==
  LET yPositions == yPositionsOf(items)
      keys == [k \in 1..Len(items) |-> closestY(yPositions, items[k].y)]
      used == keepIndices(yPositions, {p \in 1..Len(yPositions) :
                                         \E k \in 1..Len(items) : keys[k] = << yPositions[p] >>})
  IN [r \in 1..Len(used) |->
        [y |-> used[r],
         items |-> sortByX(keepIndices(items, {k \in 1..Len(items) : keys[k] = << used[r] >>}))]]

headerKeywords_005 ==
  << "date", "dt", "posting date", "value date", "txn date",
     "description", "narration", "particulars", "details", "remarks", "transaction details",
     "debit", "credit", "amount", "withdrawal", "deposit",
     "balance", "reference", "ref", "cheque", "chq", "memo",
     "dr", "cr" >>

isHeaderKeyword(text) == includesAny(trim(toLowerCase(text)), headerKeywords_005)

isDateValue_005(text) ==
  LET t == trim(text) IN
  /\ Len(t) > 0
  /\ \/ Match3(t, {"-", "/"}, <<Digits, 1, 2>>, <<Digits, 1, 2>>, <<Digits, 2, 4>>)
     \/ Match3Spaced(t, <<Digits, 1, 2>>, <<Letters, 3, 3>>, <<Digits, 4, 4>>)
     \/ Match3(t, {"-", "/"}, <<Digits, 4, 4>>, <<Digits, 1, 2>>, <<Digits, 1, 2>>)
     \/ Match3Spaced(t, <<Digits, 1, 2>>, <<Letters, 1, Len(t)>>, <<Digits, 4, 4>>)
     \/ Match3(t, {"-"}, <<Digits, 1, 2>>, <<Letters, 3, 3>>, <<Digits, 2, 4>>)

\* cleaned matches /^-?\d+\.?\d*$/
matchesNumber_005(cleaned) ==
  LET u == withoutSign(cleaned) IN
  \/ Run(u, Digits, 1, Len(u))
  \/ \E d \in 2..Len(u) :
       /\ CharAt(u, d) = "."
       /\ Run(SubSeq(u, 1, d - 1), Digits, 1, Len(u))
       /\ Run(SubSeq(u, d + 1, Len(u)), Digits, 0, Len(u))

isAmountValue_005(text) ==
  /\ Len(trim(text)) > 0
  /\ ~isDateValue_005(text)
  /\ matchesNumber_005(removeCommas(trim(text)))

rowTexts(row) == [k \in 1..Len(row.items) |-> row.items[k].text]

headerScanRows_005 == 30

\* the row qualifies as header row for findHeaders
isHeaderRow_005(row) ==
  /\ Len(row.items) >= 2
  /\ Cardinality({k \in 1..Len(row.items) : isHeaderKeyword(row.items[k].text)}) >= 2
  /\ \A k \in 1..Len(row.items) : ~isDateValue_005(row.items[k].text)

\* findHeaders: the index (1-based) of the first header row of the window, or
\* 0 for null
findHeaders(pageRows) ==
  LET found == {k \in 1..Len(pageRows) : k <= headerScanRows_005 /\ isHeaderRow_005(pageRows[k])}
  IN IF found = {} THEN 0 ELSE CHOOSE k \in found : \A m \in found : k <= m

\* the index of the header item closest in x to the item, the first of the
\* closest ones
closestHeaderIdx(x, headerItems) ==
  CHOOSE c \in 1..Len(headerItems) :
    \A d \in 1..Len(headerItems) :
      \/ distance(x, headerItems[c].x) < distance(x, headerItems[d].x)
      \/ (distance(x, headerItems[c].x) = distance(x, headerItems[d].x) /\ c <= d)

\* the texts of the row items assigned to the header, joined by a space
assignedText(row, headerRow, headers, header) ==
  LET items == keepIndices(row.items,
                 {k \in 1..Len(row.items) :
                    LET c == closestHeaderIdx(row.items[k].x, headerRow.items)
                    IN c <= Len(headers) /\ headers[IF c <= Len(headers) THEN c ELSE 1] = header})
  IN join([k \in 1..Len(items) |-> items[k].text], " ")

assignDataToColumns(row, headerRow, headers) ==
  LET keys == distinctInOrder(headers)
  IN IF Len(headerRow.items) = 0 THEN [k \in 1..Len(keys) |-> << keys[k], "" >>]
     ELSE [k \in 1..Len(keys) |-> << keys[k], assignedText(row, headerRow, headers, keys[k]) >>]

detectColumnType_005(header) ==
  LET lower == trim(toLowerCase(header)) IN
  IF includes(lower, "date") \/ lower = "dt" \/ lower = "posting date" \/ lower = "value date"
    THEN "date"
  ELSE IF \/ includes(lower, "debit") \/ includes(lower, "credit")
          \/ includes(lower, "withdrawal") \/ includes(lower, "deposit")
          \/ includes(lower, "amount") \/ includes(lower, "balance")
          \/ lower = "dr" \/ lower = "cr"
    THEN "amount"
  ELSE "text"

isDateHeader_005(header) ==
  includes(trim(toLowerCase(header)), "date") \/ trim(toLowerCase(header)) = "dt"

isAmountHeader_005(header) ==
  includesAny(trim(toLowerCase(header)),
              << "debit", "credit", "withdrawal", "deposit", "amount", "balance" >>)

isValidTransaction_005(transaction, headers) ==
  IF Len(nonEmptyValues(transaction)) < 2 THEN FALSE
  ELSE \/ \E h \in 1..Len(headers) :
            /\ isDateHeader_005(headers[h])
            /\ \A g \in 1..(h - 1) : ~isDateHeader_005(headers[g])
            /\ isDateValue_005(get(transaction, headers[h]))
       \/ \E h \in 1..Len(headers) :
            isAmountHeader_005(headers[h]) /\ isAmountValue_005(get(transaction, headers[h]))


footerKeywords_005 ==
  << "end of statement", "closing balance", "opening balance",
     "total debit", "total credit", "page", "continued",
     "thank you", "regards", "signature", "generated",
     "terms and conditions", "account summary", "account number" >>

isFooter_005(row) == includesAny(toLowerCase(join(rowTexts(row), " ")), footerKeywords_005)

\* globalHeaders.findIndex of the narration column (1-based), or 0
narrationHeaderIdx(headers) ==
  LET found == {h \in 1..Len(headers) :
                  includesAny(trim(toLowerCase(headers[h])),
                              << "narration", "particulars", "description", "details",
                                 "remarks", "transaction" >>)}
  IN IF found = {} THEN 0 ELSE CHOOSE h \in found : \A g \in found : h <= g

\* if (currentTransaction && isValidTransaction(...)) and the deduplication:
\* state is the current transaction (<< >> for null), the keys of
\* deduplicationSet and the transactions pushed for the page
pushCurrent(state, headers) ==
  IF /\ state.current # << >>
     /\ isValidTransaction_005(state.current, headers)
     /\ stringify(state.current) \notin state.seen
    THEN [state EXCEPT !.seen = state.seen \cup {stringify(state.current)},
                       !.kept = Append(state.kept, state.current)]
    ELSE state

startsTransaction_005(rowData, headers) ==
  \/ \E h \in 1..Len(headers) :
       detectColumnType_005(headers[h]) = "date" /\ isDateValue_005(get(rowData, headers[h]))
  \/ \E h \in 1..Len(headers) :
       detectColumnType_005(headers[h]) = "amount" /\ isAmountValue_005(get(rowData, headers[h]))

\* the texts of the row that are neither dates nor amounts, joined
nonEmptyTexts(row) ==
  join(keepIndices(rowTexts(row),
                   {k \in 1..Len(row.items) :
                      /\ Len(row.items[k].text) > 0
                      /\ ~isDateValue_005(row.items[k].text)
                      /\ ~isAmountValue_005(row.items[k].text)}), " ")

appendNarration(current, narrationHeader, texts) ==
  IF Len(texts) = 0 THEN current
  ELSE IF Len(get(current, narrationHeader)) > 0
    THEN put(current, narrationHeader, get(current, narrationHeader) \o " " \o texts)
    ELSE put(current, narrationHeader, texts)

\* one turn of the loop over rowIdx for a row that is not a footer
afterRow(row, rowData, headers, state) ==
  IF startsTransaction_005(rowData, headers)
    THEN [pushCurrent(state, headers) EXCEPT !.current = rowData]
  ELSE IF state.current # << >> /\ narrationHeaderIdx(headers) # 0
    THEN [state EXCEPT !.current = appendNarration(state.current,
                                                   headers[narrationHeaderIdx(headers)],
                                                   nonEmptyTexts(row))]
  ELSE state

\* the loop over rowIdx (1-based) and the push after it
RECURSIVE collectFrom(_, _, _, _, _)
collectFrom(pageRows, rowIdx, headerRow, headers, state) ==
  IF rowIdx > Len(pageRows) THEN pushCurrent(state, headers)
  ELSE IF isFooter_005(pageRows[rowIdx]) THEN pushCurrent(state, headers)
  ELSE collectFrom(pageRows, rowIdx + 1, headerRow, headers,
                   afterRow(pageRows[rowIdx],
                            assignDataToColumns(pageRows[rowIdx], headerRow, headers),
                            headers, state))

(***************************************************************************)
(* parseAllPages of the deduplicationSet pipeline (part_005)               *)
(***************************************************************************)
\* the headers after the page: those of its header row while none are set
headersAfter_005(pageRows) ==
  IF Len(globalHeaders) = 0 THEN rowTexts(pageRows[findHeaders(pageRows)]) ELSE globalHeaders

typesOf_005(headers) ==
  {<< headers[h], detectColumnType_005(headers[h]) >> : h \in 1..Len(headers)}

\* if (!headerInfo) continue; if (!headerRowInfo) continue
PageWithoutHeader ==
  /\ pc = "page"
  /\ pageIndex < Len(allPagesData)
  /\ Len(allPagesData[pageIndex + 1]) > 0
  /\ findHeaders(groupIntoRows(allPagesData[pageIndex + 1])) = 0
  /\ pageIndex' = pageIndex + 1
  /\ pageLog' = Append(pageLog, [pageIndex |-> pageIndex, parsed |-> FALSE,
                                 headers |-> globalHeaders])
  /\ UNCHANGED << inputVars, globalHeaders, globalColumns, columnTypes, pages,
                  seenTransactions, rows, i, transactions, pc, result, rowLog, candidates,
                  extracted, allTransactions >>

\* the rows below the header row of the page are collected with the headers
\* in force and pushed
collectPage(pageRows, headers, collected) ==
  /\ globalHeaders' = headers
  /\ columnTypes' = IF Len(globalHeaders) = 0 THEN typesOf_005(headers) ELSE columnTypes
  /\ seenTransactions' = collected.seen
  /\ allTransactions' = allTransactions \o collected.kept
  /\ pages' = IF Len(collected.kept) > 0
                THEN Append(pages, [pageNumber |-> pageIndex + 1,
                                    transactions |-> collected.kept])
                ELSE pages
  /\ pageLog' = Append(pageLog, [pageIndex |-> pageIndex, parsed |-> TRUE,
                                 headers |-> headers])

ParsePage ==
  /\ pc = "page"
  /\ pageIndex < Len(allPagesData)
  /\ Len(allPagesData[pageIndex + 1]) > 0
  /\ findHeaders(groupIntoRows(allPagesData[pageIndex + 1])) # 0
  /\ LET pageRows == groupIntoRows(allPagesData[pageIndex + 1])
     IN collectPage(pageRows, headersAfter_005(pageRows),
                    collectFrom(pageRows, findHeaders(pageRows) + 1,
                                pageRows[findHeaders(pageRows)], headersAfter_005(pageRows),
                                [current |-> << >>, seen |-> seenTransactions,
                                 kept |-> << >>]))
  /\ pageIndex' = pageIndex + 1
  /\ UNCHANGED << inputVars, globalColumns, rows, i, transactions, pc, result, rowLog,
                  candidates, extracted >>

Return_005 ==
  /\ pc = "page"
  /\ pageIndex >= Len(allPagesData)
  /\ result' = [returned |-> TRUE, transactions |-> allTransactions,
                headers |-> globalHeaders, pages |-> pages, columnTypes |-> columnTypes]
  /\ pc' = "done"
  /\ UNCHANGED << inputVars, pageIndex, globalHeaders, globalColumns, columnTypes, pages,
                  seenTransactions, rows, i, transactions, pageLog, rowLog, candidates,
                  extracted, allTransactions >>

Next_005 ==
  \/ SkipEmptyPage
  \/ PageWithoutHeader
  \/ ParsePage
  \/ Return_005

\* pages with and without a header row, under either header
documentPagePool_005 ==
  { << >>, pageOf(<< standardHeader, salaryRow >>), pageOf(<< standardHeader, atmRow >>),
    pageOf(<< otherHeader, salaryRow, transferTextRow >>), pageOf(<< atmRow >>),
    pageOf(<< salaryRow, atmRow >>), pageOf(<< standardHeader, atmRow, closingBalanceRow >>) }

Init_005 == \E document \in sequencesUpTo(documentPagePool_005, MaxPages) : InitState(document)

SpecDeduplicationSet == Init_005 /\ [][Next_005]_vars

(***************************************************************************)
(* Properties of the deduplicationSet pipeline (part_005)                  *)
(***************************************************************************)
\* the row holds a date and an amount
isTransactionRow_005(row) ==
  /\ \E k \in 1..Len(row.items) : isDateValue_005(row.items[k].text)
  /\ \E k \in 1..Len(row.items) : isAmountValue_005(row.items[k].text)

\* the pages (1-based) after a page with a header row that have no header row
\* of their own and whose first row is a transaction row found on no page
\* before
headerlessPagesWithRows ==
  { p \in 2..Len(allPagesData) :
      /\ Len(allPagesData[p]) > 0
      /\ findHeaders(groupIntoRows(allPagesData[p])) = 0
      /\ isTransactionRow_005(groupIntoRows(allPagesData[p])[1])
      /\ \E q \in 1..(p - 1) :
           /\ Len(allPagesData[q]) > 0
           /\ findHeaders(groupIntoRows(allPagesData[q])) # 0
      /\ \A q \in 1..(p - 1) :
           \A r \in 1..Len(groupIntoRows(allPagesData[q])) :
             rowTexts(groupIntoRows(allPagesData[q])[r])
               # rowTexts(groupIntoRows(allPagesData[p])[1]) }

\* C21: once headers have been established on an earlier page, a later page
\* that contains no header row of its own still contributes its transaction
\* rows, processed from its first row with the established headers.
C21_HeaderlessPageContributes ==
  result.returned =>
    \A p \in headerlessPagesWithRows :
      \E k \in 1..Len(result.pages) :
        /\ result.pages[k].pageNumber = p
        /\ \E t \in Range(result.pages[k].transactions) :
             \A f \in Range(rowTexts(groupIntoRows(allPagesData[p])[1])) :
               f \in Range(valuesOf(t))


(***************************************************************************)
(* Statements for the properties of header choice and row assembly         *)
(***************************************************************************)
\* two header rows of equal score, one at the threshold, one below it
tieHeaderA ==
  << fragment("Date", 0, 40), fragment("Narration", 80, 60), fragment("Balance", 380, 40) >>

tieHeaderB ==
  << fragment("Date", 0, 40), fragment("Details", 80, 60), fragment("Amount", 380, 40) >>

thresholdHeader ==
  << fragment("Date", 0, 40), fragment("Info", 80, 60), fragment("Memo", 380, 40) >>

weakHeader == << fragment("Date", 0, 40), fragment("Info", 80, 60) >>

textLines(n) == [k \in 1..n |-> repeatedTextRow]

\* pages whose header row is first, not first, tied, at the threshold, below
\* it, the last row of the scanned window, and the first row after it
headerChoicePages ==
  { pageOf(<< tieHeaderA, tieHeaderB, salaryRow >>),
    pageOf(<< tieHeaderB, tieHeaderA, salaryRow >>),
    pageOf(<< tieHeaderA, standardHeader, salaryRow, atmRow >>),
    pageOf(<< standardHeader, tieHeaderA, salaryRow >>),
    pageOf(<< thresholdHeader, salaryRow >>),
    pageOf(<< weakHeader, salaryRow, atmRow >>),
    pageOf(<< salaryRow, thresholdHeader, tieHeaderB, atmRow >>),
    pageOf(textLines(headerScanRows - 1) \o << standardHeader, salaryRow >>),
    pageOf(textLines(headerScanRows) \o << standardHeader, salaryRow >>),
    pageOf(textLines(headerScanRows) \o << standardHeader, salaryRow, atmRow >>) }

headerChoiceDocuments ==
  { << page >> : page \in headerChoicePages }
    \cup { << << >>, page >> : page \in headerChoicePages }
    \cup { << pageOf(<< repeatedTextRow >>), page >> : page \in headerChoicePages }

\* a dated row with amounts whose description holds two header keywords
depositCreditRow ==
  << fragment("03/02/2024", 0, 50), fragment("Deposit credit", 80, 60),
     fragment("250.00", 300, 30), fragment("14,750.00", 380, 45) >>

\* a narration line, and one that also fills a second column
narrationLine(text) == << fragment(text, 80, 40) >>

wideLine(text) == << fragment(text, 80, 40), fragment("Branch", 380, 40) >>

\* transaction rows under the three columns of tieHeaderB
creditRow ==
  << fragment("01/02/2024", 0, 50), fragment("Salary", 80, 30), fragment("5,000.00", 380, 40) >>

debitRow ==
  << fragment("02/02/2024", 0, 50), fragment("ATM", 80, 20), fragment("500.00", 380, 30) >>

\* a transaction row without its amount, and the line that carries it
datedRow == << fragment("04/02/2024", 0, 50), fragment("Rent", 80, 30) >>

amountLine == << fragment("Flat", 80, 30), fragment("900.00", 380, 30) >>

rowAssemblyPages ==
  { pageOf(<< standardHeader, salaryRow, depositCreditRow, atmRow >>),
    pageOf(<< tieHeaderB, datedRow, amountLine, debitRow >>),
    pageOf(<< standardHeader, salaryRow, standardHeader, atmRow >>),
    pageOf(<< tieHeaderB, creditRow, narrationLine("AA"), narrationLine("BB"),
              narrationLine("CC") >>),
    pageOf(<< tieHeaderB, creditRow, narrationLine("AA"), narrationLine("BB"),
              narrationLine("CC"), narrationLine("DD"), debitRow >>),
    pageOf(<< tieHeaderB, creditRow, narrationLine("AA"), narrationLine("BB"),
              narrationLine("CC"), wideLine("DD"), narrationLine("EE"), debitRow >>),
    pageOf(<< tieHeaderB, creditRow, narrationLine("AA"), narrationLine("BB"),
              debitRow, narrationLine("CC"), narrationLine("DD"),
              narrationLine("EE"), narrationLine("FF"), narrationLine("GG") >>) }

rowAssemblyDocuments == { << page >> : page \in rowAssemblyPages }

\* fragments in the order of the content stream, with baselines that differ
\* by less than, exactly and more than the tolerance of groupItemsIntoRows
slantedPages ==
  { << placed("Date", 0, 100), placed("Amount", 380, 98), placed("Details", 80, 97),
       placed("01/02/2024", 0, 96), placed("Salary", 80, 93), placed("5,000.00", 380, 92),
       placed("02/02/2024", 0, 60), placed("ATM", 80, 60), placed("500.00", 380, 60) >>,
    << placed("500.00", 380, 60), placed("Salary", 80, 93), placed("Date", 0, 100),
       placed("5,000.00", 380, 92), placed("ATM", 80, 60), placed("Details", 80, 97),
       placed("02/02/2024", 0, 60), placed("Amount", 380, 98), placed("01/02/2024", 0, 96) >>,
    << placed("Details", 80, 100), placed("Date", 0, 103), placed("Amount", 380, 97),
       placed("Salary", 80, 80), placed("Salary", 80, 80), placed("01/02/2024", 0, 83),
       placed("5,000.00", 380, 77), placed("ATM", 80, 76) >>,
    << placed("Date", 0, 50), placed("Details", 80, 50), placed("Details", 80, 50),
       placed("Amount", 380, 47), placed("03/02/2024", 0, 46), placed("Fee", 0, 44),
       placed("10.00", 380, 43), placed("Tax", 80, 42) >> }

slantedDocuments == { << page >> : page \in slantedPages }

feeRow ==
  << fragment("03/02/2024", 0, 50), fragment("Fee", 80, 20), fragment("10.00", 380, 30) >>

rentRow ==
  << fragment("04/02/2024", 0, 50), fragment("Rent", 80, 20), fragment("900.00", 380, 30) >>

\* a row with two fragments, 10 apart, where no other row has any
splitRow ==
  << fragment("05/02/2024", 0, 50), fragment("Tax", 80, 20), fragment("UPI", 200, 20),
     fragment("A1", 210, 10), fragment("20.00", 380, 30) >>

\* pages without a header row, whose columns come from the data
headerlessPages ==
  { pageOf(<< creditRow, debitRow, feeRow, rentRow, splitRow >>),
    pageOf(<< creditRow, debitRow, feeRow, rentRow >>),
    pageOf(<< creditRow, debitRow, wideLine("AA"), narrationLine("BB"), feeRow >>),
    pageOf(<< salaryRow, atmRow, creditRow, closingBalanceRow >>) }

headerlessDocuments == { << page >> : page \in headerlessPages }

upperCreditRow ==
  << fragment("01/02/2024", 0, 50), fragment("SALARY", 80, 30), fragment("5,000.00", 380, 40) >>

\* documents that repeat a transaction, in another letter case, on the same
\* page and on a later page
repeatingDocuments ==
  { << pageOf(<< tieHeaderB, creditRow, upperCreditRow, debitRow >>),
       pageOf(<< upperCreditRow, feeRow, creditRow >>) >>,
    << pageOf(<< tieHeaderB, creditRow, debitRow >>),
       pageOf(<< tieHeaderB, debitRow, creditRow >>) >>,
    << pageOf(<< tieHeaderB, upperCreditRow, debitRow, creditRow >>), << >>,
       pageOf(<< feeRow, debitRow >>) >>,
    << pageOf(<< tieHeaderB, creditRow, creditRow, creditRow >>) >> }

Init_statement ==
  \/ \E document \in headerChoiceDocuments : InitState(document)
  \/ \E document \in rowAssemblyDocuments : InitState(document)
  \/ \E document \in slantedDocuments : InitState(document)
  \/ \E document \in headerlessDocuments : InitState(document)
  \/ \E document \in repeatingDocuments : InitState(document)

SpecStatement == Init_statement /\ [][Next]_vars

\* the position of processAllPages: the page, the loop it is in, the row
position == << pageIndex, pc, i >>

\* a step of the single thread that runs processAllPages: it exists until
\* the function has returned, and it moves the position
Runs ==
  /\ pc # "done"
  /\ pageIndex' \in 0..Len(allPagesData)
  /\ pc' \in {"page", "rows", "done"}
  /\ i' \in 0..Len(rows)

\* the call is not suspended for ever: the thread takes its next step
SpecStatementFair == SpecStatement /\ WF_position(Runs)

(***************************************************************************)
(* Properties of the columnTypes pipeline: header choice                   *)
(***************************************************************************)
\* the scores of the rows detectHeaderAndColumns scans
windowScores(pageRows) ==
  [k \in 1..(IF Len(pageRows) < headerScanRows THEN Len(pageRows) ELSE headerScanRows) |->
     calculateHeaderScore(pageRows[k])]

\* the structure the claim describes: that of the topmost row of the largest
\* score when that score is at least 3, that of the fallback otherwise
describedStructure(pageRows) ==
  IF firstBest(windowScores(pageRows)) # 0
    THEN structureOf(columnsFromHeader(pageRows[firstBest(windowScores(pageRows))]))
    ELSE detectColumnsFromDataPatterns(pageRows)

\* C22: detectHeaderAndColumns selects as header the row with the maximum
\* calculateHeaderScore among the first 20 rows of the page, provided that
\* score is at least 3, taking the topmost row when several share the
\* maximum; when no row of the window scores at least 3 it returns the result
\* of the data-driven fallback.
C22_TopmostBestHeader ==
  \A k \in 1..Len(pageLog) :
    pageLog[k].detected =>
      /\ detectHeaderAndColumns(pageLog[k].rows) = describedStructure(pageLog[k].rows)
      /\ Len(describedStructure(pageLog[k].rows).headers) > 0 =>
           /\ pageLog[k].headers = describedStructure(pageLog[k].rows).headers
           /\ pageLog[k].columns = describedStructure(pageLog[k].rows).columns

\* a page on which two rows of the window share the largest score
C22_Witness ==
  \E k \in 1..Len(pageLog) :
    /\ pageLog[k].detected
    /\ \E a \in DOMAIN windowScores(pageLog[k].rows) :
         \E b \in DOMAIN windowScores(pageLog[k].rows) :
           /\ a < b
           /\ windowScores(pageLog[k].rows)[a] = windowScores(pageLog[k].rows)[b]
           /\ windowScores(pageLog[k].rows)[a] >= headerScoreThreshold
           /\ \A m \in DOMAIN windowScores(pageLog[k].rows) :
                windowScores(pageLog[k].rows)[m] <= windowScores(pageLog[k].rows)[a]
    /\ pageLog[k].headers = << "Date", "Details", "Amount" >>


(***************************************************************************)
(* Properties of the columnTypes pipeline: the row loop                    *)
(***************************************************************************)
\* the row (1-based in rows) a log entry is about
loggedRow(entry) == rows[entry.row + 1]

\* C23: extractTransactionsFromPage skips a row as a repeated header only if
\* that row qualifies as a header on its own (calculateHeaderScore at least
\* 3, after the penalty for data-like content) with at least two keyword
\* matches: every skipped row is a footer row, an empty row, or such a row.
C23_SkippedHeaderQualifies ==
  \A k \in 1..Len(rowLog) :
    rowLog[k].role = "skipped" =>
      \/ isFooterRow(loggedRow(rowLog[k]))
      \/ Len(loggedRow(rowLog[k])) = 0
      \/ /\ calculateHeaderScore(loggedRow(rowLog[k])) >= headerScoreThreshold
         /\ includedCount(rowText(loggedRow(rowLog[k])), headerLikeKeywords)
              >= headerLikeThreshold


\* the transaction after the rows first..last (1-based) are merged into it
RECURSIVE mergedWithRows(_, _, _)
mergedWithRows(transaction, first, last) ==
  IF first > last THEN transaction
  ELSE mergedWithRows(mergeTransactionData(transaction,
                                           mapRowToTransaction(rows[first], globalColumns,
                                                               globalHeaders),
                                           globalHeaders),
                      first + 1, last)

\* C24: each assembled transaction absorbs at most maxContinuations (3) rows
\* after its start row; the row after the third absorbed one is not merged
\* but examined as a fresh candidate start.
C24_AtMostThreeContinuations ==
  \A c \in 1..Len(candidates) :
    /\ candidates[c].absorbed <= maxContinuations
    /\ candidates[c].merged
         = mergedWithRows(candidates[c].initial, candidates[c].start + 2,
                          candidates[c].start + 1 + candidates[c].absorbed)
    /\ \A k \in 1..Len(rowLog) :
         (candidates[c].absorbed = maxContinuations
            /\ rowLog[k].row = candidates[c].start + 1 + maxContinuations)
           => rowLog[k].role # "continuation"
    /\ \A k \in 1..Len(rowLog) :
         (rowLog[k].role = "continuation" /\ rowLog[k].candidate = c)
           => (rowLog[k].row > candidates[c].start
                 /\ rowLog[k].row <= candidates[c].start + candidates[c].absorbed)

\* a transaction that absorbed three rows, followed by a row that was then
\* examined on its own
C24_Witness ==
  \E c \in 1..Len(candidates) :
    /\ candidates[c].absorbed = maxContinuations
    /\ \E k \in 1..Len(rowLog) :
         /\ rowLog[k].row = candidates[c].start + 1 + maxContinuations
         /\ rowLog[k].role \in {"start", "nodata"}
         /\ ~isNewTransaction(mapRowToTransaction(loggedRow(rowLog[k]), globalColumns,
                                                  globalHeaders))
         /\ ~isFooterRow(loggedRow(rowLog[k]))
         /\ ~isHeaderLikeRow(loggedRow(rowLog[k]))


\* row r (1-based) is merged as a continuation of candidate c
continues(r, c) ==
  r >= candidates[c].start + 2 /\ r <= candidates[c].start + 1 + candidates[c].absorbed

\* C25: in mergeTransactionData, when a continuation row has a value in a
\* date- or amount-typed column and that column is empty in the transaction
\* being assembled, the continuation value is copied into the transaction.
C25_EmptyTypedColumnFilled ==
  \A c \in 1..Len(candidates) :
    \A r \in 1..Len(rows) :
      \A h \in 1..Len(globalHeaders) :
        (/\ continues(r, c)
         /\ \/ << globalHeaders[h], "date" >> \in columnTypes
            \/ << globalHeaders[h], "amount" >> \in columnTypes
         /\ get(mergedWithRows(candidates[c].initial, candidates[c].start + 2, r - 1),
                globalHeaders[h]) = ""
         /\ get(mapRowToTransaction(rows[r], globalColumns, globalHeaders),
                globalHeaders[h]) # "")
          => get(mergedWithRows(candidates[c].initial, candidates[c].start + 2, r),
                 globalHeaders[h])
               = get(mapRowToTransaction(rows[r], globalColumns, globalHeaders),
                     globalHeaders[h])


(***************************************************************************)
(* Properties of the columnTypes pipeline: the rows of a page              *)
(***************************************************************************)
\* the fragments of the page being processed
pageItems == allPagesData[pageIndex + 1]

\* the y of the topmost fragment of a row
anchorY(row) == CHOOSE y \in {row[k].y : k \in 1..Len(row)} : \A k \in 1..Len(row) : row[k].y <= y

\* C26: groupItemsIntoRows partitions the page's fragments: every input
\* fragment appears in exactly one row and no row is empty; the rows are in
\* strictly descending order of anchor y, the fragments of a row in ascending
\* x, every fragment of a row within the tolerance (3) of the row's anchor
\* (its topmost fragment), and the anchor of each following row more than the
\* tolerance below the previous anchor.
C26_RowsPartitionPage ==
  pc = "rows" =>
    /\ rows = groupItemsIntoRows(pageItems)
    /\ isPermutationOf(pageItems, flat(rows))
    /\ \A r \in 1..Len(rows) :
         /\ Len(rows[r]) > 0
         /\ \A k \in 1..(Len(rows[r]) - 1) : rows[r][k].x <= rows[r][k + 1].x
         /\ \A k \in 1..Len(rows[r]) : anchorY(rows[r]) - rows[r][k].y <= rowTolerance
    /\ \A r \in 1..(Len(rows) - 1) : anchorY(rows[r]) - anchorY(rows[r + 1]) > rowTolerance

\* a page given out of order whose rows hold fragments of different y, one of
\* them exactly the tolerance below its anchor, and a fragment within the
\* tolerance of its predecessor that starts the next row
C26_Witness ==
  /\ pc = "rows"
  /\ pageItems # sortByYDescending(pageItems)
  /\ \E r \in 1..Len(rows) : \E k \in 1..Len(rows[r]) :
       anchorY(rows[r]) - rows[r][k].y = rowTolerance
  /\ \E r \in 1..(Len(rows) - 1) : \E a \in 1..Len(rows[r]) : \E b \in 1..Len(rows[r + 1]) :
       /\ rows[r][a].y - rows[r + 1][b].y <= rowTolerance
       /\ rows[r][a].y - rows[r + 1][b].y > 0


(***************************************************************************)
(* Properties of the columnTypes pipeline: columns from the data           *)
(***************************************************************************)
\* the clusters of x-positions of the sampled rows, and those that are kept
clustersOf(dataRows) == clusterXPositions(sortedXsOf(xsOf(flat(dataRows))), clusterThreshold)

keptClustersOf(dataRows) ==
  keepIndices(clustersOf(dataRows),
              {k \in 1..Len(clustersOf(dataRows)) :
                 5 * Len(clustersOf(dataRows)[k]) >= 2 * Len(dataRows)})

\* the sampled rows in which a fragment of the cluster occurs
rowsHolding(cluster, dataRows) ==
  {r \in 1..Len(dataRows) : \E f \in 1..Len(dataRows[r]) : dataRows[r][f].x \in Range(cluster)}

\* the columns of the page being processed came from detectColumnsFromDataPatterns
columnsFromData ==
  /\ pc = "rows"
  /\ pageLog[Len(pageLog)].detected
  /\ headerRowIndex(rows) = 0
  /\ Len(globalColumns) > 0

\* C27: in detectColumnsFromDataPatterns a cluster of x-positions becomes a
\* column only if fragments of that cluster occur in at least 40% of the
\* sampled data rows (at most 15 rows); the kept columns are labelled
\* Column 1..Column n in ascending x order, with ranges that start at 0, end
\* at +infinity and meet at the midpoints between neighbouring centres.
C27_ColumnsFromFrequentClusters ==
  columnsFromData =>
    /\ Len(dataRowsOf(rows)) <= dataSampleRows
    /\ Len(globalColumns) = Len(keptClustersOf(dataRowsOf(rows)))
    /\ \A c \in 1..Len(globalColumns) :
         /\ 5 * Cardinality(rowsHolding(keptClustersOf(dataRowsOf(rows))[c], dataRowsOf(rows)))
              >= 2 * Len(dataRowsOf(rows))
         /\ globalColumns[c].header = "Column " \o ToString(c)
         /\ globalColumns[c].startX
              = IF c = 1 THEN << 0, 1 >> ELSE globalColumns[c - 1].endX
         /\ c = Len(globalColumns) => globalColumns[c].endX = Infinity
         /\ c < Len(globalColumns) =>
              /\ globalColumns[c].endX
                   = midpoint(<< sum(keptClustersOf(dataRowsOf(rows))[c]),
                                 Len(keptClustersOf(dataRowsOf(rows))[c]) >>,
                              << sum(keptClustersOf(dataRowsOf(rows))[c + 1]),
                                 Len(keptClustersOf(dataRowsOf(rows))[c + 1]) >>)
              /\ fractionLess(globalColumns[c].startX, globalColumns[c].endX)


(***************************************************************************)
(* Properties of the ColumnRange pipeline: the rows of a page              *)
(***************************************************************************)
\* ten times the tolerance groupItemsIntoRows computes for the page
pageToleranceTenths == toleranceTenths(medianGapOf(sortByYDescending(pageItems)))

\* the rows groupItemsIntoRows made of the page being processed
rowsOfPage == pageLog[Len(pageLog)].rows

\* C28: the ColumnRange groupItemsIntoRows starts a new row exactly when the
\* y-distance from the anchor of the current row (its topmost fragment)
\* exceeds the tolerance: a fragment that is within the tolerance below the
\* anchor of a row is in that row, the anchors of different rows are more
\* than the tolerance apart, and the tolerance is within [2, 8].
C28_RowsByAnchorDistance ==
  pc = "rows" =>
    /\ rowsOfPage = groupItemsIntoRows_index(pageItems)
    /\ pageToleranceTenths >= 20 /\ pageToleranceTenths <= 80
    /\ \A r \in 1..Len(rowsOfPage) :
         \A k \in 1..Len(pageItems) :
           (/\ pageItems[k].y <= anchorY(rowsOfPage[r])
            /\ 10 * (anchorY(rowsOfPage[r]) - pageItems[k].y) <= pageToleranceTenths)
             => \E m \in 1..Len(rowsOfPage[r]) : rowsOfPage[r][m] = pageItems[k]
    /\ \A r \in 1..(Len(rowsOfPage) - 1) :
         10 * (anchorY(rowsOfPage[r]) - anchorY(rowsOfPage[r + 1])) > pageToleranceTenths


(***************************************************************************)
(* Properties of the columnTypes pipeline: seenTransactions                *)
(***************************************************************************)
\* the transactions extractTransactionsFromPage returned so far, in page and
\* row order, and those accepted into pages
extractedSoFar == flat([k \in 1..Len(extracted) |-> extracted[k].transactions])

acceptedSoFar == allTransactionsOf(pages)

\* the JSON text of a transaction with its letters in lower case
textIgnoringCase(transaction) == toLowerCase(stringify(transaction))

\* C29: at every step of the page loop of processAllPages, seenTransactions
\* is exactly the set of the keys of the transactions accepted so far, no two
\* accepted transactions have the same key, on one page or on different
\* pages, and of several transactions with one key (keys ignore letter case)
\* the first in page and row order is the one kept.
C29_SeenAreAcceptedKeys ==
  /\ seenTransactions = {createTransactionKey(acceptedSoFar[k]) : k \in 1..Len(acceptedSoFar)}
  /\ \A a \in 1..Len(acceptedSoFar) : \A b \in 1..Len(acceptedSoFar) :
       a # b => textIgnoringCase(acceptedSoFar[a]) # textIgnoringCase(acceptedSoFar[b])
  /\ acceptedSoFar
       = keepIndices(extractedSoFar,
                     {k \in 1..Len(extractedSoFar) :
                        \A j \in 1..(k - 1) :
                          textIgnoringCase(extractedSoFar[j])
                            # textIgnoringCase(extractedSoFar[k])})

\* a transaction was dropped as the repetition, in another letter case, of
\* one of its own page, and another as the repetition of one of an earlier page
C29_Witness ==
  /\ \E p \in 1..Len(extracted) :
       \E a \in 1..Len(extracted[p].transactions) : \E b \in 1..Len(extracted[p].transactions) :
         /\ a < b
         /\ extracted[p].transactions[a] # extracted[p].transactions[b]
         /\ textIgnoringCase(extracted[p].transactions[a])
              = textIgnoringCase(extracted[p].transactions[b])
  /\ \E p \in 1..Len(extracted) : \E q \in 1..Len(extracted) :
       /\ p < q
       /\ \E a \in 1..Len(extracted[p].transactions) :
            \E b \in 1..Len(extracted[q].transactions) :
              textIgnoringCase(extracted[p].transactions[a])
                = textIgnoringCase(extracted[q].transactions[b])
  /\ Len(acceptedSoFar) < Len(extractedSoFar)
  /\ pc = "page"


(***************************************************************************)
(* Properties of the columnTypes pipeline: progress of the row loop        *)
(***************************************************************************)
\* an iteration of the while loop of extractTransactionsFromPage moves the
\* row index forward, within the rows of the page
indexIncreases ==
  (pc = "rows" /\ pc' = "rows") => (i' > i /\ i' <= Len(rows) /\ rows' = rows)

\* the rows before the index are logged once each, in order, as a skipped row
\* (a footer, a repeated header, an empty row or a row without minimum
\* data), as the start of one candidate or as a continuation of one candidate
rowsHandledOnce ==
  /\ Len(rowLog) = i
  /\ \A k \in 1..Len(rowLog) :
       /\ rowLog[k].row = k - 1
       /\ rowLog[k].role \in {"skipped", "nodata", "start", "continuation"}
       /\ rowLog[k].role = "start" =>
            /\ rowLog[k].candidate \in 1..Len(candidates)
            /\ \A c \in 1..Len(candidates) :
                 candidates[c].start = k - 1 <=> c = rowLog[k].candidate
            /\ \A c \in 1..Len(candidates) : ~continues(k, c)
       /\ rowLog[k].role = "continuation" =>
            /\ rowLog[k].candidate \in 1..Len(candidates)
            /\ \A c \in 1..Len(candidates) : continues(k, c) <=> c = rowLog[k].candidate
            /\ \A c \in 1..Len(candidates) : candidates[c].start # k - 1
       /\ rowLog[k].role \in {"skipped", "nodata"} =>
            \A c \in 1..Len(candidates) : candidates[c].start # k - 1 /\ ~continues(k, c)

\* extractTransactionsFromPage returns only after the last row
allRowsHandled ==
  (pc = "rows" /\ pc' = "page" /\ hasStructure) => i = Len(rows)

\* C30: extractTransactionsFromPage terminates on every finite row list: the
\* outer row index strictly increases on every iteration, and each row of the
\* page is handled exactly once, as a skipped row, as the start row of
\* exactly one candidate transaction, or as a continuation merged into
\* exactly one candidate; no row both continues one transaction and starts
\* another.
C30_RowLoopTerminates ==
  /\ [][indexIncreases /\ allRowsHandled]_vars
  /\ [](pc = "rows" /\ hasStructure => rowsHandledOnce)
  /\ (pc = "rows") ~> (pc = "page")
  /\ <>(pc = "done")

\* the last row of a page is reached with rows of every kind behind: skipped,
\* without minimum data, starts of two candidates and continuations
C30_Witness ==
  /\ pc = "rows"
  /\ hasStructure
  /\ i = Len(rows)
  /\ Len(candidates) >= 2
  /\ \A role \in {"skipped", "nodata", "start", "continuation"} :
       \E k \in 1..Len(rowLog) : rowLog[k].role = role
  /\ \E c \in 1..Len(candidates) : candidates[c].absorbed = maxContinuations
====
